---- MODULE Spec2Model ----
(***************************************************************************)
(* GAINS pushup tracker (src/src/main.cpp): the control loop, the rep      *)
(* counting state machine with its timeouts, the prediction ring and its   *)
(* aggregation, and the circular IMU sample buffer.                        *)
(*                                                                         *)
(* Time is the value of millis(), an unsigned 32-bit millisecond counter.  *)
(* Samples are identified by their arrival number, so that the order of    *)
(* the window read back from the circular buffer can be stated.            *)
(***************************************************************************)
EXTENDS Integers, Sequences, FiniteSets, TLC

\* ------------------------------------------------------------------------
\* Program constants
\* ------------------------------------------------------------------------
WINDOW_SIZE == 50
BUFFER_SIZE == WINDOW_SIZE
NUM_POSTURE_CLASSES == 4
NUM_PHASE_CLASSES == 3
MAX_PREDICTIONS_PER_CYCLE == 6
STATE_TIMEOUT_MS == 10000
CYCLE_TIMEOUT_MS == 10000
INFERENCE_INTERVAL_MS == 1000
\* delay(10) at the end of loop()
LOOP_DELAY_MS == 10

\* enum PushupState
STATE_IDLE == 0
STATE_AT_TOP == 1
STATE_DESCENDING == 2
STATE_AT_BOTTOM == 3
STATE_ASCENDING == 4

\* enum PushupCycleState
CYCLE_IDLE == 0
CYCLE_IN_PROGRESS == 1
CYCLE_DESCENDING == 2
CYCLE_AT_BOTTOM == 3
CYCLE_ASCENDING == 4

\* phase classes (phase_labels)
PHASE_AT_TOP == 0
PHASE_MOVING == 1
PHASE_AT_BOTTOM == 2
NUM_CHANNELS == 6
MEDIAN_KERNEL_SIZE == 3
ACCEL_CHANNELS == 3
GYRO_CHANNELS == 3
\* MW_DataCollection
ACC_LSB_PER_G == 16384
GYR_LSB_PER_DPS == 131
PERIOD_MS == 25

\* unsigned long arithmetic of the target (32 bit). The clock values of the model stay
\* below 2^31; a difference a - b with a < b wraps to 2^32 - (b - a), and the comparisons
\* with that value are computed without writing 2^32 (2^32 = TwoTo16 * TwoTo16).
TwoTo16 == 256 * 256
\* variant: no elapsed time ever exceeds a limit
USubGreater_Never(a, b, c) == FALSE

\* (uint32)(a - b) > c
USubGreater(a, b, c) ==
    IF a >= b THEN a - b > c ELSE ((b - a) + c) \div TwoTo16 < TwoTo16
\* (uint32)(a - b) >= c
USubAtLeast(a, b, c) ==
    IF a >= b THEN a - b >= c ELSE ((b - a) + c - 1) \div TwoTo16 < TwoTo16

\* ------------------------------------------------------------------------
\* Bounds of the model
\* ------------------------------------------------------------------------
\* windows the classifier classifies (calls of UpdateRepCounter) in a run
MaxCalls == 9
\* calls of UpdateRepCounter made by the state machine harness (SpecRep)
MaxHarnessCalls == 10
\* samples pushed into the circular buffer by the buffer harness (SpecBuf)
MaxPushes == 105
\* predictions in the rings given to AggregatePredictions (SpecAgg)
MaxRing == 4
\* button presses the loop has not answered yet, in the control harness (SpecCtl)
MaxOwed == 2
\* windows classified in the control harness (SpecCtl)
MaxTickCalls == 2
\* SpecCycle: calls of UpdateRepCounter
MaxCycleCalls == 13
\* SpecLive: windows classified
MaxLiveCalls == 7
\* SpecGate: samples the sensor delivers, and windows classified
MaxGatePushes == 52
MaxGateCalls == 3
MaxCondSamples == 4
\* SpecSettle: samples fed to a filter
MaxSettleSamples == 700
MaxRx == 2

Phases == 0 .. (NUM_PHASE_CLASSES - 1)
Postures == 0 .. (NUM_POSTURE_CLASSES - 1)
\* posture classes the classifier reports to the loop: good-form and hips-high
LoopPostures == {0, 1}

\* Timestamps are kept relative to the latest currentTime snapshot of loop(): when d ms
\* pass, every stored timestamp moves d into the past, so currentTime is always 0 and a
\* timestamp taken later in the same iteration is positive. A timestamp is not aged
\* beyond the largest age the code compares it with, plus one (its horizon); and one the
\* code overwrites before it reads it again (state_enter_time in Idle, cycle_start_time
\* of an idle cycle) is aged to its horizon at once.
Horizon == STATE_TIMEOUT_MS + 1
Elapse(ts, d, horizon, live) ==
    IF ~live \/ ts - d < -horizon THEN -horizon ELSE ts - d

\* time one loop iteration may take (up to the millis() snapshot of the next)
LongDelay == STATE_TIMEOUT_MS \div 2
Delays == {INFERENCE_INTERVAL_MS, LongDelay}
\* time that passes inside one iteration between the currentTime snapshot and
\* the millis() calls made by UpdateRepCounter (the classifier runs in between)
Skews == {0, 1}
\* iteration times of the control harness: shorter than the inference interval, or equal
ShortDelay == INFERENCE_INTERVAL_MS \div 4
TickDelays == {ShortDelay, INFERENCE_INTERVAL_MS}

VARIABLES
    buttonState,        \* written by the ISR
    lastButtonState,
    inferenceEnabled,
    lastInferenceTime,
    rep_counter,        \* struct RepCounter
    cycle_tracker,      \* struct PushupCycleTracker (predictions[0..prediction_count-1])
    imu_buffer,         \* imu_buffer[BUFFER_SIZE], a slot holds a sample's arrival number
    buffer_index,
    samples_collected,
    pushed,             \* history: number of samples stored so far
    ev,                 \* history: what the last step did
    calls,              \* history: number of UpdateRepCounter calls so far
    last_phase,         \* history: phase given to the previous UpdateRepCounter call
    matched,            \* history: progress along the reference rep sequence
    trail,              \* history: states entered since the machine left Idle / AtTop
    aggregated,         \* the value AggregatePredictions returned (-1: not called)
    owed,               \* history: button presses minus the toggles the loop made for them
    posture_output,     \* the classifier's output tensor: data.int8[], scale, zero_point
    best_posture,       \* what GetBestClass returned for it (-1: not called)
    normalized_window,  \* normalized_window[t][ch], in units of 1 / FloatUnit
    model_input,        \* the classifier's input tensor: data.int8[], scale, zero_point
    preprocessor,       \* class Preprocessor: median buffers, cursor, filters
    processed_sample,   \* what ProcessSample wrote for the last raw sample
    median_sample,      \* accel_median, gyro_median of that call (its median stage)
    streamOn,           \* data collector: toggled by serial commands
    last_sent,          \* data collector: "static uint32_t last" of loop()
    rx,                 \* data collector: command lines received and not yet read
    frame,              \* data collector: the values of the frame written last
    dc_ev,              \* history: what the collector's last iteration did
    stream_cmd,         \* history: the last START or STOP command read
    settle_kind,        \* filter harness: which ButterworthFilter is fed
    settle_filter,      \* filter harness: the ButterworthFilter
    settle_input,       \* filter harness: the constant input
    settle_output,      \* filter harness: the last output
    settle_count,       \* filter harness: samples fed so far
    detected_phase      \* what DetectPhase returned for the window (-1: not called)

\* the variables of loop() and its history
programVars == <<buttonState, lastButtonState, inferenceEnabled, lastInferenceTime,
                 rep_counter, cycle_tracker, imu_buffer, buffer_index, samples_collected,
                 pushed, ev, calls, last_phase, matched, trail,
                 aggregated>>

ctlVars == <<owed>>
bestVars == <<posture_output, best_posture>>
quantVars == <<normalized_window, model_input>>
condVars == <<preprocessor, processed_sample, median_sample>>
dcVars == <<streamOn, last_sent, rx, frame, dc_ev, stream_cmd>>
settleVars == <<settle_kind, settle_filter, settle_input, settle_output, settle_count>>
phaseVars == <<detected_phase>>

\* the variables only the harness specifications change
harnessVars == <<ctlVars, bestVars, quantVars, condVars, dcVars, settleVars,
                   phaseVars>>

vars == <<programVars, harnessVars>>

\* ------------------------------------------------------------------------
\* Prediction aggregation
\* ------------------------------------------------------------------------
PredictionCount(ct) == Len(ct.predictions)

\* variant: the at-top predictions vote too
Votes_All(preds, c) ==
    Cardinality({i \in 1 .. Len(preds) : preds[i].posture_class = c})

\* votes[c]: predictions of class c whose phase is not at-top
Votes(preds, c) ==
    Cardinality({i \in 1 .. Len(preds) :
                    preds[i].phase_class # 0 /\ preds[i].posture_class = c})

\* the scan "if (votes[i] > max_votes)" over classes 1..NUM_POSTURE_CLASSES-1
RECURSIVE MajorityScan(_, _, _, _)
MajorityScan(preds, i, best_class, max_votes) ==
    IF i >= NUM_POSTURE_CLASSES THEN best_class
    ELSE IF Votes(preds, i) > max_votes
         THEN MajorityScan(preds, i + 1, i, Votes(preds, i))
         ELSE MajorityScan(preds, i + 1, best_class, max_votes)

\* AggregatePredictions for a ring holding at least one prediction
AggregatePredictions(preds) ==
    IF Len(preds) < 2
    THEN preds[Len(preds)].posture_class
    ELSE MajorityScan(preds, 1, 0, Votes(preds, 0))

\* ------------------------------------------------------------------------
\* GetBestClass. A tensor's scale is the rational scale.num / scale.den, so the
\* dequantized score scale * (q - zero_point) is Dequantize / scale.den and the initial
\* max_prob, -1.0, is (0 - scale.den) / scale.den: scores are compared by numerators.
\* ------------------------------------------------------------------------
Dequantize(output, i) == output.scale.num * (output.data[i] - output.zero_point)

RECURSIVE BestScan_LastWins(_, _, _, _, _)
\* variant: a score equal to the maximum so far replaces it
BestScan_LastWins(output, num_classes, i, best_class, max_prob) ==
    IF i >= num_classes
    THEN best_class
    ELSE IF Dequantize(output, i) >= max_prob
         THEN BestScan_LastWins(output, num_classes, i + 1, i, Dequantize(output, i))
         ELSE BestScan_LastWins(output, num_classes, i + 1, best_class, max_prob)

RECURSIVE BestScan(_, _, _, _, _)
\* the for loop over the classes from class i on
BestScan(output, num_classes, i, best_class, max_prob) ==
    IF i >= num_classes
    THEN best_class
    ELSE IF Dequantize(output, i) > max_prob
         THEN BestScan(output, num_classes, i + 1, i, Dequantize(output, i))
         ELSE BestScan(output, num_classes, i + 1, best_class, max_prob)

GetBestClass(output, num_classes) ==
    BestScan(output, num_classes, 0, 0, 0 - output.scale.den)

\* no tensor has been evaluated
BestIdle ==
    /\ posture_output = [data |-> [i \in 0 .. (NUM_POSTURE_CLASSES - 1) |-> 0],
                         scale |-> [num |-> 1, den |-> 1],
                         zero_point |-> 0]
    /\ best_posture = -1

\* ------------------------------------------------------------------------
\* RunInference: quantization of the normalized window into the input tensor. Floats
\* are fixed-point numbers with FloatUnit units to 1: a normalized value and the tensor's
\* scale are integers in these units, their quotient val / input_scale is the exact
\* rational val / scale.
\* ------------------------------------------------------------------------
FloatUnit == 1000

\* roundf(num / den) for den > 0: to the nearest integer, halfway cases away from zero
RoundHalfAway(num, den) ==
    IF num >= 0
    THEN (2 * num + den) \div (2 * den)
    ELSE 0 - ((2 * (0 - num) + den) \div (2 * den))

\* "if (q < -128) q = -128; if (q > 127) q = 127;"
Clamp(q) == IF q < -128 THEN -128 ELSE IF q > 127 THEN 127 ELSE q

\* static_cast<int8_t>(q)
ToInt8(q) == ((q + 128) % 256) - 128

\* variant: the quantized value is stored without being clamped
Quantize_NoClamp(val, input_scale, input_zp) ==
    ToInt8(RoundHalfAway(val, input_scale) + input_zp)

\* the value stored for one element of the window
Quantize(val, input_scale, input_zp) ==
    ToInt8(Clamp(RoundHalfAway(val, input_scale) + input_zp))

\* "int idx = t * NUM_CHANNELS + ch;"
FlatIndex(t, ch) == t * NUM_CHANNELS + ch

\* a tensor element no one has written
Unwritten == 0 - 129

\* the iterations (t, ch) of the two nested for loops that write element i
WritesTo(i) ==
    {w \in (0 .. (WINDOW_SIZE - 1)) \X (0 .. (NUM_CHANNELS - 1)) :
        FlatIndex(w[1], w[2]) = i}

\* the last of the iterations ws in the order the loops run: t outer, ch inner
LastIteration(ws) ==
    CHOOSE w \in ws :
        \A v \in ws : v[1] < w[1] \/ (v[1] = w[1] /\ v[2] <= w[2])

\* the tensor after the two nested for loops: an element holds what the last
\* iteration addressing it stored, or what it held before if none addressed it
QuantizeLoops(data, window, input_scale, input_zp) ==
    [i \in DOMAIN data |->
        IF WritesTo(i) = {}
        THEN data[i]
        ELSE Quantize(window[LastIteration(WritesTo(i))[1]][LastIteration(WritesTo(i))[2]],
                      input_scale, input_zp)]

\* the input tensor before RunInference has written it
EmptyInput(input_scale, input_zp) ==
    [data |-> [i \in 0 .. (WINDOW_SIZE * NUM_CHANNELS - 1) |-> Unwritten],
     scale |-> input_scale,
     zero_point |-> input_zp]

\* RunInference has not built a window: no window, an input tensor without data
QuantIdle ==
    /\ normalized_window = <<>>
    /\ model_input = [data |-> <<>>, scale |-> FloatUnit, zero_point |-> 0]

\* ------------------------------------------------------------------------
\* Preprocessor (preprocessing.cpp). Sample values are fixed-point numbers in the unit
\* of the caller (FloatUnit units to 1 in SpecCond, SettleUnit units to 1 in
\* SpecSettle); filter coefficients are fixed-point numbers with CoefUnit units to 1
\* (the coefficients of the source rounded to 8 decimals), and a product is rounded to
\* the nearest unit of the sample.
\* ------------------------------------------------------------------------
\* a coefficient is two limbs of 4 decimal digits, so that products stay in 32 bits
CoefLimb == 10000
CoefUnit == CoefLimb * CoefLimb

Abs(x) == IF x < 0 THEN 0 - x ELSE x

\* coefficient * value, exactly, rounded to the nearest unit: the product of the limbs
FixMul(c, x) ==
    LET c1 == Abs(c) \div CoefLimb
        c0 == Abs(c) % CoefLimb
        x1 == Abs(x) \div CoefLimb
        x0 == Abs(x) % CoefLimb
        mid == c1 * x0 + c0 * x1
        magnitude == c1 * x1 + (mid \div CoefLimb)
                        + RoundHalfAway((mid % CoefLimb) * CoefLimb + c0 * x0, CoefUnit)
    IN IF (c < 0) # (x < 0) THEN 0 - magnitude ELSE magnitude

\* InitAccelLowpass
AccelLowpassCoef ==
    [b0_1 |-> 9398085, b1_1 |-> 18796170, b2_1 |-> 9398085,
     a1_1 |-> 0, a2_1 |-> 3956613,
     b0_2 |-> CoefUnit, b1_2 |-> 2 * CoefUnit, b2_2 |-> CoefUnit,
     a1_2 |-> 0, a2_2 |-> 44646269]

\* InitGyroHighpass
GyroHighpassCoef ==
    [b0_1 |-> 95978223, b1_1 |-> -191956446, b2_1 |-> 95978223,
     a1_1 |-> -194263823, a2_1 |-> 94359728,
     b0_2 |-> CoefUnit, b1_2 |-> 0 - 2 * CoefUnit, b2_2 |-> CoefUnit,
     a1_2 |-> -197526963, a2_2 |-> 97624479]

\* InitGravityFilter (b0_1, b1_1, b2_1 keep 3 digits)
GravityCoef ==
    [b0_1 |-> 215, b1_1 |-> 430, b2_1 |-> 215,
     a1_1 |-> -185907627, a2_1 |-> 86482490,
     b0_2 |-> CoefUnit, b1_2 |-> 2 * CoefUnit, b2_2 |-> CoefUnit,
     a1_2 |-> -193571484, a2_2 |-> 94170045]

\* Reset(): the state of one biquad section
ClearedSection == [w1 |-> 0, w2 |-> 0]

\* a ButterworthFilter after Init(): cleared sections and its coefficients
NewFilter(coef) == [section1 |-> ClearedSection, section2 |-> ClearedSection, coef |-> coef]

\* the Preprocessor after its constructor
NewPreprocessor ==
    [median_index |-> 0,
     accel_median_buffer |->
        [i \in 0 .. (ACCEL_CHANNELS - 1) |-> [j \in 0 .. (MEDIAN_KERNEL_SIZE - 1) |-> 0]],
     gyro_median_buffer |->
        [i \in 0 .. (GYRO_CHANNELS - 1) |-> [j \in 0 .. (MEDIAN_KERNEL_SIZE - 1) |-> 0]],
     accel_lowpass |-> [i \in 0 .. (ACCEL_CHANNELS - 1) |-> NewFilter(AccelLowpassCoef)],
     gravity_filter |-> [i \in 0 .. (ACCEL_CHANNELS - 1) |-> NewFilter(GravityCoef)],
     gyro_highpass |-> [i \in 0 .. (GYRO_CHANNELS - 1) |-> NewFilter(GyroHighpassCoef)]]

\* "if (sorted[j] > sorted[j + 1]) swap"
CompareSwap(sorted, j) ==
    IF sorted[j] > sorted[j + 1]
    THEN [sorted EXCEPT ![j] = sorted[j + 1], ![j + 1] = sorted[j]]
    ELSE sorted

\* the bubble sort of ApplyMedianFilter for MEDIAN_KERNEL_SIZE = 3:
\* i = 0 with j = 0, 1, then i = 1 with j = 0
BubbleSort(sorted) == CompareSwap(CompareSwap(CompareSwap(sorted, 0), 1), 0)

\* variant: the smallest of the three values is returned
ApplyMedianFilter_Smallest(buffer, median_index, new_value) ==
    LET stored == [buffer EXCEPT ![median_index] = new_value] IN
    [output |-> BubbleSort(stored)[0], buffer |-> stored]

ApplyMedianFilter(buffer, median_index, new_value) ==
    LET stored == [buffer EXCEPT ![median_index] = new_value] IN
    [output |-> BubbleSort(stored)[MEDIAN_KERNEL_SIZE \div 2], buffer |-> stored]

\* Direct Form II transposed
ApplyBiquad(state, input, b0, b1, b2, a1, a2) ==
    LET output == FixMul(b0, input) + state.w1 IN
    [output |-> output,
     state |-> [w1 |-> FixMul(b1, input) - FixMul(a1, output) + state.w2,
                w2 |-> FixMul(b2, input) - FixMul(a2, output)]]

\* variant: the output of the first section is returned
ApplyButterworthFilter_FirstSection(filter, input) ==
    LET c == filter.coef
        first == ApplyBiquad(filter.section1, input, c.b0_1, c.b1_1, c.b2_1, c.a1_1, c.a2_1)
        second == ApplyBiquad(filter.section2, first.output,
                              c.b0_2, c.b1_2, c.b2_2, c.a1_2, c.a2_2)
    IN [output |-> first.output,
        filter |-> [filter EXCEPT !.section1 = first.state, !.section2 = second.state]]

ApplyButterworthFilter(filter, input) ==
    LET c == filter.coef
        first == ApplyBiquad(filter.section1, input, c.b0_1, c.b1_1, c.b2_1, c.a1_1, c.a2_1)
        second == ApplyBiquad(filter.section2, first.output,
                              c.b0_2, c.b1_2, c.b2_2, c.a1_2, c.a2_2)
    IN [output |-> second.output,
        filter |-> [filter EXCEPT !.section1 = first.state, !.section2 = second.state]]

\* ProcessSample(raw_accel, raw_gyro, processed_sample): the Preprocessor after the
\* call, the sample it wrote and the output of its median stage
ProcessSample(p, raw_accel, raw_gyro) ==
    LET accel_median == [i \in 0 .. (ACCEL_CHANNELS - 1) |->
                            ApplyMedianFilter(p.accel_median_buffer[i], p.median_index,
                                              raw_accel[i])]
        gyro_median == [i \in 0 .. (GYRO_CHANNELS - 1) |->
                           ApplyMedianFilter(p.gyro_median_buffer[i], p.median_index,
                                             raw_gyro[i])]
        accel_lowpass_out == [i \in 0 .. (ACCEL_CHANNELS - 1) |->
                                 ApplyButterworthFilter(p.accel_lowpass[i],
                                                        accel_median[i].output)]
        gyro_highpass_out == [i \in 0 .. (GYRO_CHANNELS - 1) |->
                                 ApplyButterworthFilter(p.gyro_highpass[i],
                                                        gyro_median[i].output)]
        gravity == [i \in 0 .. (ACCEL_CHANNELS - 1) |->
                       ApplyButterworthFilter(p.gravity_filter[i],
                                              accel_lowpass_out[i].output)]
    IN [p |-> [median_index |-> (p.median_index + 1) % MEDIAN_KERNEL_SIZE,
               accel_median_buffer |->
                  [i \in 0 .. (ACCEL_CHANNELS - 1) |-> accel_median[i].buffer],
               gyro_median_buffer |->
                  [i \in 0 .. (GYRO_CHANNELS - 1) |-> gyro_median[i].buffer],
               accel_lowpass |->
                  [i \in 0 .. (ACCEL_CHANNELS - 1) |-> accel_lowpass_out[i].filter],
               gravity_filter |->
                  [i \in 0 .. (ACCEL_CHANNELS - 1) |-> gravity[i].filter],
               gyro_highpass |->
                  [i \in 0 .. (GYRO_CHANNELS - 1) |-> gyro_highpass_out[i].filter]],
        processed_sample |->
           [k \in 0 .. (NUM_CHANNELS - 1) |->
               IF k < ACCEL_CHANNELS
               THEN accel_lowpass_out[k].output - gravity[k].output
               ELSE gyro_highpass_out[k - ACCEL_CHANNELS].output],
        median_sample |->
           [k \in 0 .. (NUM_CHANNELS - 1) |->
               IF k < ACCEL_CHANNELS
               THEN accel_median[k].output
               ELSE gyro_median[k - ACCEL_CHANNELS].output]]

\* loop(): the six values stored for a sample read: [ax, ay, az, gx, gy, gz]
BufferEntry(accel, gyro) ==
    [k \in 0 .. (NUM_CHANNELS - 1) |->
        IF k < ACCEL_CHANNELS THEN accel[k] ELSE gyro[k - ACCEL_CHANNELS]]

\* no Preprocessor has been constructed
CondIdle ==
    /\ preprocessor = <<>>
    /\ processed_sample = <<>>
    /\ median_sample = <<>>

\* no filter is fed on its own
SettleIdle ==
    /\ settle_kind = ""
    /\ settle_filter = <<>>
    /\ settle_input = 0
    /\ settle_output = 0
    /\ settle_count = 0

\* a Preprocessor has been constructed and has processed no sample
InitPreprocessor ==
    /\ preprocessor = NewPreprocessor
    /\ processed_sample = [k \in 0 .. (NUM_CHANNELS - 1) |-> 0]
    /\ median_sample = [k \in 0 .. (NUM_CHANNELS - 1) |-> 0]

\* ------------------------------------------------------------------------
\* Data collector (MW_DataCollection/src/main.cpp). A command line is the sequence of
\* its tokens, words and whitespace characters (" ", "\r"); a float is the rational
\* num / den; last_sent is kept relative to the time now, like the timestamps of the
\* main program.
\* ------------------------------------------------------------------------
Whitespace == {" ", "\r"}

RECURSIVE TrimLeft(_)
TrimLeft(line) ==
    IF line # <<>> /\ Head(line) \in Whitespace THEN TrimLeft(Tail(line)) ELSE line

RECURSIVE TrimRight(_)
TrimRight(line) ==
    IF line # <<>> /\ line[Len(line)] \in Whitespace
    THEN TrimRight(SubSeq(line, 1, Len(line) - 1))
    ELSE line

\* String::trim()
Trim(line) == TrimRight(TrimLeft(line))

\* 'if (cmd == "START") ... else if (cmd == "STOP") ...': streamOn after the command
ParseCommand(streaming, line) ==
    IF Trim(line) = <<"START">> THEN TRUE
    ELSE IF Trim(line) = <<"STOP">> THEN FALSE
    ELSE streaming

\* the lambda s16 of icmRead: two bytes, high first, as an int16_t
S16(raw, i) ==
    IF raw[i] * 256 + raw[i + 1] >= 128 * 256
    THEN raw[i] * 256 + raw[i + 1] - TwoTo16
    ELSE raw[i] * 256 + raw[i + 1]

\* icmRead: the six values computed from the 14 bytes read
IcmRead(raw) ==
    [ax |-> [num |-> S16(raw, 0), den |-> ACC_LSB_PER_G],
     ay |-> [num |-> S16(raw, 2), den |-> ACC_LSB_PER_G],
     az |-> [num |-> S16(raw, 4), den |-> ACC_LSB_PER_G],
     gx |-> [num |-> S16(raw, 8), den |-> GYR_LSB_PER_DPS],
     gy |-> [num |-> S16(raw, 10), den |-> GYR_LSB_PER_DPS],
     gz |-> [num |-> S16(raw, 12), den |-> GYR_LSB_PER_DPS]]

\* variant: loop() goes on to the period check whether or not streaming is on
Path_IgnoreStreamOn(streaming, due, read_ok) ==
    IF ~due THEN "early"
    ELSE IF ~read_ok THEN "no_data"
    ELSE "frame"

\* where loop() returns after the command handling: at "if (!streamOn)", at
\* "if (now - last < PERIOD_MS)", at "if (!icmRead(...))", or at its end
Path(streaming, due, read_ok) ==
    IF ~streaming THEN "off"
    ELSE IF ~due THEN "early"
    ELSE IF ~read_ok THEN "no_data"
    ELSE "frame"

\* the six Serial.write calls at the end of loop(): the values in the order written
WriteFrame(m) == <<m.ax, m.ay, m.az, m.gx, m.gy, m.gz>>

\* "now - last < PERIOD_MS" is false
PeriodPassed(sent) == ~(0 - sent < PERIOD_MS)

NoCollectorEvent == [cmd |-> "NONE", wrote |-> FALSE, raw |-> <<>>]

\* the collector after setup(): setup() takes more than PERIOD_MS
InitCollector ==
    /\ streamOn = FALSE
    /\ last_sent = 0 - PERIOD_MS
    /\ rx = <<>>
    /\ frame = <<>>
    /\ dc_ev = NoCollectorEvent
    /\ stream_cmd = "NONE"

\* ------------------------------------------------------------------------
\* Rep counter
\* ------------------------------------------------------------------------
\* variant: the rep is classified but not counted
CompleteRepWithAggregation_NoCount(rc, aggregated_posture) ==
    [rc EXCEPT !.good_form_reps = IF aggregated_posture = 0 THEN @ + 1 ELSE @,
               !.poor_form_reps = IF aggregated_posture = 0 THEN @ ELSE @ + 1,
               !.good_form_count = 0,
               !.poor_form_count = 0]

\* variant: a completed rep is tallied as good and as poor
CompleteRepWithAggregation_BothTallies(rc, aggregated_posture) ==
    [rc EXCEPT !.total_reps = @ + 1,
               !.good_form_reps = @ + 1,
               !.poor_form_reps = @ + 1,
               !.good_form_count = 0,
               !.poor_form_count = 0]

CompleteRepWithAggregation(rc, aggregated_posture) ==
    [rc EXCEPT !.total_reps = @ + 1,
               !.good_form_reps = IF aggregated_posture = 0 THEN @ + 1 ELSE @,
               !.poor_form_reps = IF aggregated_posture = 0 THEN @ ELSE @ + 1,
               !.good_form_count = 0,
               !.poor_form_count = 0]

TrackPosture(rc, posture) ==
    IF posture = 0
    THEN [rc EXCEPT !.good_form_count = @ + 1]
    ELSE [rc EXCEPT !.poor_form_count = @ + 1]

\* variant: a full ring drops the arriving record
BufferPrediction_DropNewest(ct, phase, posture) ==
    LET rec == [posture_class |-> posture, phase_class |-> phase] IN
    IF ct.cycle_state # CYCLE_IDLE /\ Len(ct.predictions) < MAX_PREDICTIONS_PER_CYCLE
    THEN [ct EXCEPT !.predictions = Append(@, rec)]
    ELSE ct

\* variant: only the first prediction of a cycle is buffered
BufferPrediction_OnlyFirst(ct, phase, posture) ==
    LET rec == [posture_class |-> posture, phase_class |-> phase] IN
    IF ct.cycle_state # CYCLE_IDLE /\ PredictionCount(ct) = 0
    THEN [ct EXCEPT !.predictions = Append(@, rec)]
    ELSE ct

BufferPrediction(ct, phase, posture) ==
    LET rec == [posture_class |-> posture, phase_class |-> phase] IN
    IF ct.cycle_state # CYCLE_IDLE
    THEN IF PredictionCount(ct) < MAX_PREDICTIONS_PER_CYCLE
         THEN [ct EXCEPT !.predictions = Append(@, rec)]
         ELSE [ct EXCEPT !.predictions = Append(Tail(@), rec)]
    ELSE ct

\* the "else" of the buffering: the ring is shifted before the record is stored
Evicts(ct) ==
    ct.cycle_state # CYCLE_IDLE /\ PredictionCount(ct) >= MAX_PREDICTIONS_PER_CYCLE

\* variant: the first matching input already confirms
Confirm_NoHysteresis(rc, ct, next_state, t) ==
    IF rc.state = STATE_AT_TOP
    THEN [rc |-> [rc EXCEPT !.state = next_state, !.phase_confirm_count = 0],
          ct |-> [ct EXCEPT !.cycle_state = CYCLE_IN_PROGRESS,
                            !.predictions = <<>>,
                            !.cycle_start_time = t]]
    ELSE IF rc.state = STATE_ASCENDING
    THEN [rc |-> [CompleteRepWithAggregation(rc, AggregatePredictions(ct.predictions))
                     EXCEPT !.state = next_state, !.phase_confirm_count = 0],
          ct |-> [ct EXCEPT !.cycle_state = CYCLE_IDLE,
                            !.predictions = <<>>]]
    ELSE [rc |-> [rc EXCEPT !.state = next_state, !.phase_confirm_count = 0],
          ct |-> ct]

\* one arm of the switch: the trigger phase was seen in a state with hysteresis
Confirm(rc, ct, next_state, t) ==
    IF rc.phase_confirm_count + 1 >= 2
    THEN IF rc.state = STATE_AT_TOP
         THEN [rc |-> [rc EXCEPT !.state = next_state, !.phase_confirm_count = 0],
               ct |-> [ct EXCEPT !.cycle_state = CYCLE_IN_PROGRESS,
                                 !.predictions = <<>>,
                                 !.cycle_start_time = t]]
         ELSE IF rc.state = STATE_ASCENDING
         THEN [rc |-> [CompleteRepWithAggregation(rc, AggregatePredictions(ct.predictions))
                          EXCEPT !.state = next_state, !.phase_confirm_count = 0],
               ct |-> [ct EXCEPT !.cycle_state = CYCLE_IDLE,
                                 !.predictions = <<>>]]
         ELSE [rc |-> [rc EXCEPT !.state = next_state, !.phase_confirm_count = 0],
               ct |-> ct]
    ELSE [rc |-> [rc EXCEPT !.phase_confirm_count = @ + 1], ct |-> ct]

TriggerPhase(state) ==
    CASE state = STATE_IDLE -> PHASE_AT_TOP
      [] state = STATE_AT_TOP -> PHASE_MOVING
      [] state = STATE_DESCENDING -> PHASE_AT_BOTTOM
      [] state = STATE_AT_BOTTOM -> PHASE_MOVING
      [] state = STATE_ASCENDING -> PHASE_AT_TOP

\* variant: Descending goes straight to Ascending
NextState_SkipAtBottom(state) ==
    CASE state = STATE_IDLE -> STATE_AT_TOP
      [] state = STATE_AT_TOP -> STATE_DESCENDING
      [] state = STATE_DESCENDING -> STATE_ASCENDING
      [] state = STATE_AT_BOTTOM -> STATE_ASCENDING
      [] state = STATE_ASCENDING -> STATE_AT_TOP

NextState(state) ==
    CASE state = STATE_IDLE -> STATE_AT_TOP
      [] state = STATE_AT_TOP -> STATE_DESCENDING
      [] state = STATE_DESCENDING -> STATE_AT_BOTTOM
      [] state = STATE_AT_BOTTOM -> STATE_ASCENDING
      [] state = STATE_ASCENDING -> STATE_AT_TOP

\* variant: an input other than the trigger phase leaves the confirm counter alone
Transition_KeepCount(rc, ct, phase, t) ==
    IF rc.state = STATE_IDLE
    THEN IF phase = PHASE_AT_TOP
         THEN [rc |-> [rc EXCEPT !.state = STATE_AT_TOP], ct |-> ct]
         ELSE [rc |-> rc, ct |-> ct]
    ELSE IF phase = TriggerPhase(rc.state)
         THEN Confirm(rc, ct, NextState(rc.state), t)
         ELSE [rc |-> rc, ct |-> ct]

\* the switch (rep_counter.state) of UpdateRepCounter
Transition(rc, ct, phase, t) ==
    IF rc.state = STATE_IDLE
    THEN IF phase = PHASE_AT_TOP
         THEN [rc |-> [rc EXCEPT !.state = STATE_AT_TOP], ct |-> ct]
         ELSE [rc |-> rc, ct |-> ct]
    ELSE IF phase = TriggerPhase(rc.state)
         THEN Confirm(rc, ct, NextState(rc.state), t)
         ELSE [rc |-> [rc EXCEPT !.phase_confirm_count = 0], ct |-> ct]

\* variant: entering AtBottom leaves the cycle state alone
CycleStateOf_NoAtBottom(state, old) ==
    CASE state = STATE_DESCENDING -> CYCLE_DESCENDING
      [] state = STATE_ASCENDING -> CYCLE_ASCENDING
      [] OTHER -> old

CycleStateOf(state, old) ==
    CASE state = STATE_DESCENDING -> CYCLE_DESCENDING
      [] state = STATE_AT_BOTTOM -> CYCLE_AT_BOTTOM
      [] state = STATE_ASCENDING -> CYCLE_ASCENDING
      [] OTHER -> old

\* "if (rep_counter.state != old_state)": entry time and cycle state
TrackEntry(old_state, m, t) ==
    IF m.rc.state # old_state
    THEN [rc |-> [m.rc EXCEPT !.state_enter_time = t],
          ct |-> [m.ct EXCEPT !.cycle_state = CycleStateOf(m.rc.state, @)]]
    ELSE m

\* UpdateRepCounter(phase, posture); t is what millis() returns during the call
UpdateRepCounter(rc, ct, phase, posture, t) ==
    TrackEntry(rc.state,
               Transition(TrackPosture(rc, posture),
                          BufferPrediction(ct, phase, posture), phase, t),
               t)

\* ------------------------------------------------------------------------
\* Circular IMU buffer
\* ------------------------------------------------------------------------
\* variant: the window is read from slot 0 on, whatever the write cursor
BufIdx_FromZero(idx, i) == i % BUFFER_SIZE

\* the slot read for window position i (0-based) by NormalizeWindow / DetectPhase
BufIdx(idx, i) == (idx - WINDOW_SIZE + i + BUFFER_SIZE) % BUFFER_SIZE

\* the window as NormalizeWindow / DetectPhase traverse it, oldest position first
Window(buf, idx) == [i \in 1 .. WINDOW_SIZE |-> buf[BufIdx(idx, i - 1)]]

\* loop(): a sample was read, store it at the write cursor
StoreSample(buf, idx, sample) == [buf EXCEPT ![idx] = sample]
\* variant: the write cursor is not wrapped
AdvanceIndex_NoWrap(idx) == idx + 1
AdvanceIndex(idx) == (idx + 1) % BUFFER_SIZE
CountSample(n) == IF n < WINDOW_SIZE THEN n + 1 ELSE n

\* variant: the sample buffers are written whatever ReadIMU() returned
ReadAndStore_IgnoreStatus(buf, idx, samples, sample, read_ok) ==
    [buf |-> StoreSample(buf, idx, sample),
     idx |-> AdvanceIndex(idx),
     samples |-> CountSample(samples)]

\* loop(): "if (ReadIMU(accel, gyro)) { ... }"
ReadAndStore(buf, idx, samples, sample, read_ok) ==
    IF read_ok
    THEN [buf |-> StoreSample(buf, idx, sample),
          idx |-> AdvanceIndex(idx),
          samples |-> CountSample(samples)]
    ELSE [buf |-> buf, idx |-> idx, samples |-> samples]

\* ------------------------------------------------------------------------
\* DetectPhase(). A sample is its six values [ax, ay, az, gx, gy, gz] in PhaseUnit units
\* to 1. The statistics are kept exact: the sums stand for az_mean and gy_max_abs (they
\* are WINDOW_SIZE times them), and az_std is compared through its square.
\* ------------------------------------------------------------------------
PhaseUnit == 100

\* the thresholds 0.70f, 0.72f, 1.10f, 1.12f, 0.10f and 15.0f
VALLEY_MAX == 70
PLATEAU_MIN == 72
PLATEAU_MAX == 110
PEAK_MIN == 112
STABLE_STD_MAX == 10
STATIC_GY_MAX == 15 * PhaseUnit
\* the literals 20.0f of rule 3 and 0.15f of rule 5
GyroMovingMin == 20 * PhaseUnit
VarianceMovingMin == 15

\* the sum of f[1] .. f[n]
RECURSIVE SumTo(_, _)
SumTo(f, n) == IF n = 0 THEN 0 ELSE f[n] + SumTo(f, n - 1)

\* the two loops over the window: az_sum, gy_sum, and az_var_sum for the mean az_sum /
\* WINDOW_SIZE (each diff is kept as WINDOW_SIZE * diff, so var_sum_n2 is WINDOW_SIZE^2
\* times az_var_sum)
WindowStats(buf, idx) ==
    LET w == Window(buf, idx)
        az_sum == SumTo([i \in 1 .. WINDOW_SIZE |-> w[i][2]], WINDOW_SIZE)
        gy_sum == SumTo([i \in 1 .. WINDOW_SIZE |-> Abs(w[i][4])], WINDOW_SIZE)
        diff_n == [i \in 1 .. WINDOW_SIZE |-> WINDOW_SIZE * w[i][2] - az_sum]
    IN [az_sum |-> az_sum,
        gy_sum |-> gy_sum,
        var_sum_n2 |-> SumTo([i \in 1 .. WINDOW_SIZE |-> diff_n[i] * diff_n[i]],
                             WINDOW_SIZE)]

\* comparisons of az_mean = az_sum / WINDOW_SIZE, gy_max_abs = gy_sum / WINDOW_SIZE and
\* az_std = sqrtf(az_var_sum / WINDOW_SIZE) with a threshold c
MeanBelow(st, c) == st.az_sum < c * WINDOW_SIZE
MeanAtLeast(st, c) == st.az_sum >= c * WINDOW_SIZE
MeanAtMost(st, c) == st.az_sum <= c * WINDOW_SIZE
GyroAbove(st, c) == st.gy_sum > c * WINDOW_SIZE
GyroBelow(st, c) == st.gy_sum < c * WINDOW_SIZE
StdBelow(st, c) == st.var_sum_n2 < c * c * WINDOW_SIZE * WINDOW_SIZE * WINDOW_SIZE
StdAbove(st, c) == st.var_sum_n2 > c * c * WINDOW_SIZE * WINDOW_SIZE * WINDOW_SIZE

\* variant: the default rule is applied before the variance rule
PhaseOf_DefaultBeforeVariance(st) ==
    IF MeanBelow(st, VALLEY_MAX) THEN PHASE_MOVING
    ELSE IF MeanAtLeast(st, PEAK_MIN) THEN PHASE_AT_BOTTOM
    ELSE IF GyroAbove(st, GyroMovingMin) THEN PHASE_MOVING
    ELSE IF /\ MeanAtLeast(st, PLATEAU_MIN) /\ MeanAtMost(st, PLATEAU_MAX)
            /\ StdBelow(st, STABLE_STD_MAX) /\ GyroBelow(st, STATIC_GY_MAX)
    THEN PHASE_AT_TOP
    ELSE IF MeanAtLeast(st, PLATEAU_MIN) /\ MeanAtMost(st, PLATEAU_MAX) THEN PHASE_AT_TOP
    ELSE IF StdAbove(st, VarianceMovingMin) THEN PHASE_MOVING
    ELSE PHASE_MOVING

\* the chain of "if (...) return" of DetectPhase
PhaseOf(st) ==
    IF MeanBelow(st, VALLEY_MAX) THEN PHASE_MOVING
    ELSE IF MeanAtLeast(st, PEAK_MIN) THEN PHASE_AT_BOTTOM
    ELSE IF GyroAbove(st, GyroMovingMin) THEN PHASE_MOVING
    ELSE IF /\ MeanAtLeast(st, PLATEAU_MIN) /\ MeanAtMost(st, PLATEAU_MAX)
            /\ StdBelow(st, STABLE_STD_MAX) /\ GyroBelow(st, STATIC_GY_MAX)
    THEN PHASE_AT_TOP
    ELSE IF StdAbove(st, VarianceMovingMin) THEN PHASE_MOVING
    ELSE IF MeanAtLeast(st, PLATEAU_MIN) /\ MeanAtMost(st, PLATEAU_MAX) THEN PHASE_AT_TOP
    ELSE PHASE_MOVING

DetectPhase(buf, idx) == PhaseOf(WindowStats(buf, idx))

\* DetectPhase has not been called
PhaseIdle == detected_phase = -1

\* ------------------------------------------------------------------------
\* loop(): inference and timeouts
\* ------------------------------------------------------------------------
\* RunInference(): nothing without a full window or when Invoke() fails
\* variant: the window is classified however few samples were collected
RunInference_NoWindowGuard(rc, ct, samples, invoke_ok, phase, posture, t) ==
    IF ~invoke_ok THEN [rc |-> rc, ct |-> ct, invoked |-> TRUE, called |-> FALSE,
          wdt_before |-> TRUE, wdt_after |-> FALSE]
    ELSE LET u == UpdateRepCounter(rc, ct, phase, posture, t)
         IN [rc |-> u.rc, ct |-> u.ct, invoked |-> TRUE, called |-> TRUE,
             wdt_before |-> TRUE, wdt_after |-> TRUE]

\* variant: the status of Invoke() is not looked at
RunInference_IgnoreStatus(rc, ct, samples, invoke_ok, phase, posture, t) ==
    IF samples < WINDOW_SIZE
    THEN [rc |-> rc, ct |-> ct, invoked |-> FALSE, called |-> FALSE,
          wdt_before |-> FALSE, wdt_after |-> FALSE]
    ELSE LET u == UpdateRepCounter(rc, ct, phase, posture, t)
         IN [rc |-> u.rc, ct |-> u.ct, invoked |-> TRUE, called |-> TRUE,
             wdt_before |-> TRUE, wdt_after |-> TRUE]

\* invoked: Invoke() was reached; called: UpdateRepCounter was called; wdt_before,
\* wdt_after: esp_task_wdt_reset() was called before Invoke(), and between Invoke() and
\* the return
RunInference(rc, ct, samples, invoke_ok, phase, posture, t) ==
    IF samples < WINDOW_SIZE
    THEN [rc |-> rc, ct |-> ct, invoked |-> FALSE, called |-> FALSE,
          wdt_before |-> FALSE, wdt_after |-> FALSE]
    ELSE IF ~invoke_ok
    THEN [rc |-> rc, ct |-> ct, invoked |-> TRUE, called |-> FALSE,
          wdt_before |-> TRUE, wdt_after |-> FALSE]
    ELSE LET u == UpdateRepCounter(rc, ct, phase, posture, t)
         IN [rc |-> u.rc, ct |-> u.ct, invoked |-> TRUE, called |-> TRUE,
             wdt_before |-> TRUE, wdt_after |-> TRUE]

\* the condition of "State machine timeout - handle stuck states"
StateTimedOut(rc, currentTime) ==
    /\ rc.state # STATE_IDLE
    /\ rc.state # STATE_AT_TOP
    /\ USubGreater(currentTime, rc.state_enter_time, STATE_TIMEOUT_MS)

\* variant: the reset arm leaves the buffered predictions in the ring
StateTimeout_KeepRing(rc, ct, currentTime, t) ==
    IF rc.state = STATE_ASCENDING /\ Len(ct.predictions) >= 2
    THEN [rc |-> [CompleteRepWithAggregation(rc, AggregatePredictions(ct.predictions))
                     EXCEPT !.state = STATE_AT_TOP,
                            !.phase_confirm_count = 0,
                            !.state_enter_time = currentTime],
          ct |-> [ct EXCEPT !.cycle_state = CYCLE_IDLE,
                            !.predictions = <<>>],
          fired |-> "complete"]
    ELSE [rc |-> [rc EXCEPT !.state = STATE_IDLE,
                            !.phase_confirm_count = 0,
                            !.state_enter_time = currentTime],
          ct |-> [ct EXCEPT !.cycle_state = CYCLE_IDLE],
          fired |-> "reset"]

\* variant: a stuck Ascending is reset like the other states
StateTimeout_AlwaysReset(rc, ct, currentTime, t) ==
    [rc |-> [rc EXCEPT !.state = STATE_IDLE,
                       !.phase_confirm_count = 0,
                       !.state_enter_time = currentTime],
     ct |-> [ct EXCEPT !.cycle_state = CYCLE_IDLE,
                       !.predictions = <<>>],
     fired |-> "reset"]

\* variant: the reset arm goes to AtTop
StateTimeout_ResetToAtTop(rc, ct, currentTime, t) ==
    IF rc.state = STATE_ASCENDING /\ Len(ct.predictions) >= 2
    THEN [rc |-> [CompleteRepWithAggregation(rc, AggregatePredictions(ct.predictions))
                     EXCEPT !.state = STATE_AT_TOP,
                            !.phase_confirm_count = 0,
                            !.state_enter_time = currentTime],
          ct |-> [ct EXCEPT !.cycle_state = CYCLE_IDLE,
                            !.predictions = <<>>],
          fired |-> "complete"]
    ELSE [rc |-> [rc EXCEPT !.state = STATE_AT_TOP,
                            !.phase_confirm_count = 0,
                            !.state_enter_time = currentTime],
          ct |-> [ct EXCEPT !.cycle_state = CYCLE_IDLE,
                            !.predictions = <<>>],
          fired |-> "reset"]

\* its body; t is millis() at the forced completion
StateTimeout(rc, ct, currentTime, t) ==
    IF rc.state = STATE_ASCENDING /\ PredictionCount(ct) >= 2
    THEN [rc |-> [CompleteRepWithAggregation(rc, AggregatePredictions(ct.predictions))
                     EXCEPT !.state = STATE_AT_TOP,
                            !.phase_confirm_count = 0,
                            !.state_enter_time = currentTime],
          ct |-> [ct EXCEPT !.cycle_state = CYCLE_IDLE,
                            !.predictions = <<>>],
          fired |-> "complete"]
    ELSE [rc |-> [rc EXCEPT !.state = STATE_IDLE,
                            !.phase_confirm_count = 0,
                            !.state_enter_time = currentTime],
          ct |-> [ct EXCEPT !.cycle_state = CYCLE_IDLE,
                            !.predictions = <<>>],
          fired |-> "reset"]

CheckStateTimeout(rc, ct, currentTime, t) ==
    IF StateTimedOut(rc, currentTime)
    THEN StateTimeout(rc, ct, currentTime, t)
    ELSE [rc |-> rc, ct |-> ct, fired |-> "none"]

\* the condition of "Check for cycle timeout (incomplete pushup)"
CycleTimedOut(ct, currentTime) ==
    /\ ct.cycle_state # CYCLE_IDLE
    /\ USubGreater(currentTime, ct.cycle_start_time, CYCLE_TIMEOUT_MS)

CycleTimeout(rc, ct) ==
    [rc |-> [rc EXCEPT !.state = STATE_IDLE,
                       !.phase_confirm_count = 0,
                       !.good_form_count = 0,
                       !.poor_form_count = 0],
     ct |-> [ct EXCEPT !.cycle_state = CYCLE_IDLE,
                       !.predictions = <<>>],
     fired |-> TRUE]

CheckCycleTimeout(rc, ct, currentTime) ==
    IF CycleTimedOut(ct, currentTime)
    THEN CycleTimeout(rc, ct)
    ELSE [rc |-> rc, ct |-> ct, fired |-> FALSE]

\* variant: inference and timeouts run whatever the flag
InferenceGate_Open(enabled) == TRUE

\* "if (inferenceEnabled)" around the inference and the two timeouts
InferenceGate(enabled) == enabled

\* variant: the interval gate is always open
InferenceDue_Always(currentTime, last) == TRUE

\* "if (currentTime - lastInferenceTime >= INFERENCE_INTERVAL_MS)"
InferenceDue(currentTime, last) == USubAtLeast(currentTime, last, INFERENCE_INTERVAL_MS)

\* the button edge and the serial key: the new value of inferenceEnabled
ToggleOnButton(enabled, currentState, lastState) ==
    IF currentState # lastState /\ currentState THEN ~enabled ELSE enabled
ToggleOnSerial(enabled, available) == IF available THEN ~enabled ELSE enabled

\* ------------------------------------------------------------------------
\* History variables
\* ------------------------------------------------------------------------
\* cycle_age: for a cycle active when the iteration began, the time from its start to the
\* iteration's currentTime snapshot (0 without one)
NoEvent == [loop |-> FALSE, read_ok |-> FALSE, ran |-> FALSE, age |-> 0,
            invoked |-> FALSE, failed |-> FALSE, wdt_before |-> FALSE, wdt_after |-> FALSE,
            called |-> FALSE, mid_state |-> STATE_IDLE, mid_enter |-> 0,
            mid_count |-> 0, mid_cycle |-> CYCLE_IDLE, evicted |-> FALSE,
            enabled |-> FALSE, cycle_age |-> 0,
            state_timeout |-> "none", cycle_timeout |-> FALSE]

\* the rep of the specification's test: phases fed in this order from Idle
RefSeq == <<PHASE_AT_TOP, PHASE_MOVING, PHASE_MOVING, PHASE_AT_BOTTOM, PHASE_AT_BOTTOM,
            PHASE_MOVING, PHASE_MOVING, PHASE_AT_TOP, PHASE_AT_TOP>>

\* calls made so far, while they are exactly a prefix of RefSeq and no timeout fired; else -1
Advance(m, called, phase, timed_out) ==
    IF timed_out \/ m < 0 THEN -1
    ELSE IF ~called THEN m
    ELSE IF m < Len(RefSeq) /\ phase = RefSeq[m + 1] THEN m + 1
    ELSE -1

\* the states entered since the machine was last in Idle or AtTop, after an assignment
\* that takes rep_counter.state from old_state to new_state
Track(tr, old_state, new_state) ==
    IF new_state = old_state THEN tr
    ELSE IF new_state \in {STATE_IDLE, STATE_AT_TOP} THEN <<>>
    ELSE Append(tr, new_state)

\* ------------------------------------------------------------------------
\* Initial state and actions
\* ------------------------------------------------------------------------
InitRepCounter ==
    [total_reps |-> 0, good_form_reps |-> 0, poor_form_reps |-> 0, state |-> STATE_IDLE,
     phase_confirm_count |-> 0, good_form_count |-> 0, poor_form_count |-> 0,
     state_enter_time |-> 0]

InitCycleTracker ==
    [cycle_state |-> CYCLE_IDLE, predictions |-> <<>>, cycle_start_time |-> 0]

InitProgram ==
    /\ buttonState = FALSE
    /\ lastButtonState = FALSE
    /\ inferenceEnabled = FALSE
    /\ lastInferenceTime = 0
    /\ rep_counter = InitRepCounter
    /\ cycle_tracker = InitCycleTracker
    /\ imu_buffer = [i \in 0 .. (BUFFER_SIZE - 1) |-> 0]
    /\ buffer_index = 0
    /\ samples_collected = 0
    /\ pushed = 0
    /\ ev = NoEvent
    /\ calls = 0
    /\ last_phase = -1
    /\ matched = 0
    /\ trail = <<>>
    /\ aggregated = -1
    /\ owed = 0

Init == InitProgram /\ BestIdle /\ QuantIdle /\ CondIdle /\ InitCollector /\ SettleIdle
        /\ PhaseIdle

\* d ms pass: the stored timestamps seen from the next currentTime snapshot
ElapseInference(last, d) == Elapse(last, d, INFERENCE_INTERVAL_MS, TRUE)
ElapseRepCounter(rc, d) ==
    [rc EXCEPT !.state_enter_time =
        Elapse(@, d, Horizon, rc.state # STATE_IDLE)]
ElapseCycleTracker(ct, d) ==
    [ct EXCEPT !.cycle_start_time = Elapse(@, d, Horizon, ct.cycle_state # CYCLE_IDLE)]

\* handleButtonInterrupt(): the pin changed (mode CHANGE), the ISR copies its level
ButtonLevelChange ==
    /\ buttonState' = ~buttonState
    /\ ev' = NoEvent
    /\ aggregated' = -1
    /\ UNCHANGED <<lastButtonState, inferenceEnabled, lastInferenceTime, rep_counter,
                   cycle_tracker, imu_buffer, buffer_index, samples_collected, pushed,
                   calls, last_phase, matched, trail>>

HandleButtonInterrupt == ButtonLevelChange /\ UNCHANGED harnessVars

\* one iteration of loop(), given what the environment does during it: d ms pass up to
\* the currentTime snapshot and s more up to the millis() calls of UpdateRepCounter, a
\* key was received or not, ReadIMU() and Invoke() succeed or not, and the phase and
\* posture the window is classified as
LoopBody(d, s, serial, read_ok, invoke_ok, phase, posture) ==
    LET currentTime == 0
        t == s
        last == ElapseInference(lastInferenceTime, d)
        enabled == ToggleOnSerial(
                      ToggleOnButton(inferenceEnabled, buttonState, lastButtonState),
                      serial)
        due == InferenceGate(enabled) /\ InferenceDue(currentTime, last)
    IN
    \E smp \in {ReadAndStore(imu_buffer, buffer_index, samples_collected,
                             pushed + 1, read_ok)} :
    \E inf \in {IF due
                THEN RunInference(ElapseRepCounter(rep_counter, d),
                                  ElapseCycleTracker(cycle_tracker, d),
                                  smp.samples, invoke_ok, phase, posture, t)
                ELSE [rc |-> ElapseRepCounter(rep_counter, d),
                      ct |-> ElapseCycleTracker(cycle_tracker, d),
                      invoked |-> FALSE,
                      called |-> FALSE,
                      wdt_before |-> FALSE,
                      wdt_after |-> FALSE]} :
    \E st \in {IF InferenceGate(enabled)
               THEN CheckStateTimeout(inf.rc, inf.ct, currentTime, t)
               ELSE [rc |-> inf.rc, ct |-> inf.ct, fired |-> "none"]} :
    \E cy \in {IF InferenceGate(enabled)
               THEN CheckCycleTimeout(st.rc, st.ct, currentTime)
               ELSE [rc |-> st.rc, ct |-> st.ct, fired |-> FALSE]} :
    /\ lastButtonState' = buttonState
    /\ inferenceEnabled' = enabled
    /\ imu_buffer' = smp.buf
    /\ buffer_index' = smp.idx
    /\ samples_collected' = smp.samples
    /\ pushed' = IF read_ok THEN pushed + 1 ELSE pushed
    /\ lastInferenceTime' = IF due THEN currentTime ELSE last
    /\ rep_counter' = cy.rc
    /\ cycle_tracker' = cy.ct
    /\ ev' = [loop |-> TRUE,
              read_ok |-> read_ok,
              ran |-> due,
              age |-> 0 - last,
              invoked |-> inf.invoked,
              failed |-> inf.invoked /\ ~invoke_ok,
              wdt_before |-> inf.wdt_before,
              wdt_after |-> inf.wdt_after,
              called |-> inf.called,
              mid_state |-> inf.rc.state,
              mid_enter |-> inf.rc.state_enter_time,
              mid_count |-> PredictionCount(inf.ct),
              mid_cycle |-> inf.ct.cycle_state,
              evicted |-> inf.called /\ Evicts(ElapseCycleTracker(cycle_tracker, d)),
              enabled |-> enabled,
              cycle_age |-> IF cycle_tracker.cycle_state # CYCLE_IDLE
                            THEN 0 - ElapseCycleTracker(cycle_tracker, d).cycle_start_time
                            ELSE 0,
              state_timeout |-> st.fired,
              cycle_timeout |-> cy.fired]
    /\ calls' = IF inf.called THEN calls + 1 ELSE calls
    /\ last_phase' = IF inf.called THEN phase ELSE last_phase
    /\ matched' = Advance(matched, inf.called, phase, st.fired # "none" \/ cy.fired)
    /\ trail' = Track(Track(Track(trail, rep_counter.state, inf.rc.state),
                            inf.rc.state, st.rc.state),
                      st.rc.state, cy.rc.state)
    /\ aggregated' = IF inf.rc.total_reps # rep_counter.total_reps
                     THEN AggregatePredictions(
                             BufferPrediction(ElapseCycleTracker(cycle_tracker, d),
                                              phase, posture).predictions)
                     ELSE IF st.fired = "complete"
                     THEN AggregatePredictions(inf.ct.predictions)
                     ELSE -1
    /\ UNCHANGED buttonState

\* the sensor stops delivering once the window is full (SpecBuf slides the window)
EnvAllows(read_ok) == read_ok => pushed < WINDOW_SIZE

\* the windows of one tally period are all classified alike
SamePosture(posture) ==
    IF posture = 0 THEN rep_counter.poor_form_count = 0
    ELSE rep_counter.good_form_count = 0

EnabledAfter(serial) ==
    ToggleOnSerial(ToggleOnButton(inferenceEnabled, buttonState, lastButtonState), serial)

\* an iteration while the window fills: it takes the loop's delay(10), the sensor delivers
LoopFilling ==
    /\ samples_collected < WINDOW_SIZE
    /\ \E serial \in BOOLEAN :
          LoopBody(LOOP_DELAY_MS, 0, serial, TRUE, TRUE, PHASE_AT_TOP, 0)
    /\ UNCHANGED harnessVars

\* an iteration with a full window in which no inference is due
LoopIdle ==
    /\ samples_collected = WINDOW_SIZE
    /\ \E d \in Delays, serial \in BOOLEAN, read_ok \in BOOLEAN :
          /\ EnvAllows(read_ok)
          /\ ~ (EnabledAfter(serial) /\ InferenceDue(0, ElapseInference(lastInferenceTime, d)))
          /\ LoopBody(d, 0, serial, read_ok, TRUE, PHASE_AT_TOP, 0)
    /\ UNCHANGED harnessVars

\* an iteration with a full window in which RunInference() is called and Invoke() fails
LoopInvokeFails ==
    /\ samples_collected = WINDOW_SIZE
    /\ \E d \in Delays, serial \in BOOLEAN, read_ok \in BOOLEAN :
          /\ EnvAllows(read_ok)
          /\ EnabledAfter(serial) /\ InferenceDue(0, ElapseInference(lastInferenceTime, d))
          /\ LoopBody(d, 0, serial, read_ok, FALSE, PHASE_AT_TOP, 0)
    /\ UNCHANGED harnessVars

\* an iteration with a full window in which the window is classified
LoopInference ==
    /\ samples_collected = WINDOW_SIZE
    /\ calls < MaxCalls
    /\ \E d \in Delays, s \in Skews, serial \in BOOLEAN, read_ok \in BOOLEAN,
          phase \in Phases, posture \in LoopPostures :
          /\ EnvAllows(read_ok)
          /\ EnabledAfter(serial) /\ InferenceDue(0, ElapseInference(lastInferenceTime, d))
          /\ SamePosture(posture)
          /\ LoopBody(d, s, serial, read_ok, TRUE, phase, posture)
    /\ UNCHANGED harnessVars

Loop == LoopFilling \/ LoopIdle \/ LoopInvokeFails \/ LoopInference

Next == HandleButtonInterrupt \/ Loop

Spec == Init /\ [][Next]_vars

\* ------------------------------------------------------------------------
\* SpecLive: loop() under the scheduling of the Arduino core, which calls loop() again
\* whenever it returns; every iteration returns (it ends with delay(10)), so iterations
\* never stop. The classifier sees good form only; after MaxLiveCalls classified windows
\* every further invocation fails, so no further phase is observed.
\* ------------------------------------------------------------------------
LoopClassifies ==
    /\ samples_collected = WINDOW_SIZE
    /\ calls < MaxLiveCalls
    /\ \E d \in Delays, s \in Skews, serial \in BOOLEAN, read_ok \in BOOLEAN,
          phase \in Phases :
          /\ EnvAllows(read_ok)
          /\ EnabledAfter(serial) /\ InferenceDue(0, ElapseInference(lastInferenceTime, d))
          /\ LoopBody(d, s, serial, read_ok, TRUE, phase, 0)
    /\ UNCHANGED harnessVars

LoopLive == LoopFilling \/ LoopIdle \/ LoopInvokeFails \/ LoopClassifies

NextLive == HandleButtonInterrupt \/ LoopLive

SpecLive == Init /\ [][NextLive]_vars /\ WF_vars(LoopLive)

\* ------------------------------------------------------------------------
\* SpecGate: loop() with a sensor that keeps delivering after the window filled, so that
\* the write cursor wraps while inference is switched on and off by the serial key.
\* Few windows are classified: enough to be inside a cycle when inference is disabled.
\* ------------------------------------------------------------------------
GateTick ==
    /\ \E d \in Delays, serial \in BOOLEAN, read_ok \in BOOLEAN,
          phase \in {PHASE_AT_TOP, PHASE_MOVING} :
          /\ read_ok => pushed < MaxGatePushes
          /\ (EnabledAfter(serial) /\ InferenceDue(0, ElapseInference(lastInferenceTime, d))
                 /\ samples_collected = WINDOW_SIZE)
                => calls < MaxGateCalls
          /\ LoopBody(d, 0, serial, read_ok, TRUE, phase, 0)
    /\ UNCHANGED harnessVars

NextGate == GateTick

SpecGate == Init /\ [][NextGate]_vars

\* ------------------------------------------------------------------------
\* SpecRep: the rep state machine alone. UpdateRepCounter is called with any phase and
\* posture, and the two timeouts of loop() may fire whenever the machine is in a state in
\* which loop() checks them (any amount of time may have passed). Timestamps stay 0.
\* ------------------------------------------------------------------------
CallUpdateRepCounter ==
    /\ calls < MaxHarnessCalls
    /\ \E phase \in Phases, posture \in LoopPostures :
       \E u \in {UpdateRepCounter(rep_counter, cycle_tracker, phase, posture, 0)} :
          /\ rep_counter' = u.rc
          /\ cycle_tracker' = u.ct
          /\ ev' = [NoEvent EXCEPT !.called = TRUE,
                                   !.enabled = TRUE,
                                   !.mid_state = u.rc.state,
                                   !.mid_count = PredictionCount(u.ct),
                                   !.mid_cycle = u.ct.cycle_state,
                                   !.evicted = Evicts(cycle_tracker)]
          /\ calls' = calls + 1
          /\ last_phase' = phase
          /\ matched' = Advance(matched, TRUE, phase, FALSE)
          /\ trail' = Track(trail, rep_counter.state, u.rc.state)
          /\ aggregated' = IF u.rc.total_reps # rep_counter.total_reps
                           THEN AggregatePredictions(
                                   BufferPrediction(cycle_tracker, phase,
                                                    posture).predictions)
                           ELSE -1
    /\ UNCHANGED <<buttonState, lastButtonState, inferenceEnabled, lastInferenceTime,
                   imu_buffer, buffer_index, samples_collected, pushed, harnessVars>>

StateTimeoutFires ==
    /\ rep_counter.state \notin {STATE_IDLE, STATE_AT_TOP}
    /\ \E st \in {StateTimeout(rep_counter, cycle_tracker, 0, 0)} :
          /\ rep_counter' = st.rc
          /\ cycle_tracker' = st.ct
          /\ ev' = [NoEvent EXCEPT !.enabled = TRUE,
                                   !.mid_state = rep_counter.state,
                                   !.mid_count = PredictionCount(cycle_tracker),
                                   !.mid_cycle = cycle_tracker.cycle_state,
                                   !.state_timeout = st.fired]
          /\ trail' = Track(trail, rep_counter.state, st.rc.state)
    /\ aggregated' = IF rep_counter.state = STATE_ASCENDING
                        /\ PredictionCount(cycle_tracker) >= 2
                     THEN AggregatePredictions(cycle_tracker.predictions)
                     ELSE -1
    /\ matched' = -1
    /\ UNCHANGED <<buttonState, lastButtonState, inferenceEnabled, lastInferenceTime,
                   imu_buffer, buffer_index, samples_collected, pushed, calls, last_phase,
                   harnessVars>>

CycleTimeoutFires ==
    /\ cycle_tracker.cycle_state # CYCLE_IDLE
    /\ \E cy \in {CycleTimeout(rep_counter, cycle_tracker)} :
          /\ rep_counter' = cy.rc
          /\ cycle_tracker' = cy.ct
          /\ ev' = [NoEvent EXCEPT !.enabled = TRUE,
                                   !.mid_state = rep_counter.state,
                                   !.mid_count = PredictionCount(cycle_tracker),
                                   !.mid_cycle = cycle_tracker.cycle_state,
                                   !.cycle_timeout = TRUE]
          /\ trail' = Track(trail, rep_counter.state, cy.rc.state)
    /\ aggregated' = -1
    /\ matched' = -1
    /\ UNCHANGED <<buttonState, lastButtonState, inferenceEnabled, lastInferenceTime,
                   imu_buffer, buffer_index, samples_collected, pushed, calls, last_phase,
                   harnessVars>>

NextRep == CallUpdateRepCounter \/ StateTimeoutFires \/ CycleTimeoutFires

SpecRep == Init /\ [][NextRep]_vars

\* ------------------------------------------------------------------------
\* SpecCycle: one push-up cycle after another without timeouts. UpdateRepCounter is
\* called with any phase, the posture is always good form, and the calls come quickly
\* enough that neither timeout of loop() fires. Long enough for cycles that linger in
\* Ascending.
\* ------------------------------------------------------------------------
CallInCycle ==
    /\ calls < MaxCycleCalls
    /\ \E phase \in Phases :
       \E u \in {UpdateRepCounter(rep_counter, cycle_tracker, phase, 0, 0)} :
          /\ rep_counter' = u.rc
          /\ cycle_tracker' = u.ct
          /\ ev' = [NoEvent EXCEPT !.called = TRUE,
                                   !.enabled = TRUE,
                                   !.mid_state = u.rc.state,
                                   !.mid_count = PredictionCount(u.ct),
                                   !.mid_cycle = u.ct.cycle_state,
                                   !.evicted = Evicts(cycle_tracker)]
          /\ calls' = calls + 1
          /\ last_phase' = phase
          /\ matched' = Advance(matched, TRUE, phase, FALSE)
          /\ trail' = Track(trail, rep_counter.state, u.rc.state)
          /\ aggregated' = IF u.rc.total_reps # rep_counter.total_reps
                           THEN AggregatePredictions(
                                   BufferPrediction(cycle_tracker, phase, 0).predictions)
                           ELSE -1
    /\ UNCHANGED <<buttonState, lastButtonState, inferenceEnabled, lastInferenceTime,
                   imu_buffer, buffer_index, samples_collected, pushed, harnessVars>>

NextCycle == CallInCycle

SpecCycle == Init /\ [][NextCycle]_vars

\* ------------------------------------------------------------------------
\* SpecBuf: the sampling part of loop() alone; every iteration reads a sample, so the
\* write cursor wraps and the window slides.
\* ------------------------------------------------------------------------
PushSample ==
    /\ pushed < MaxPushes
    /\ imu_buffer' = StoreSample(imu_buffer, buffer_index, pushed + 1)
    /\ buffer_index' = AdvanceIndex(buffer_index)
    /\ samples_collected' = CountSample(samples_collected)
    /\ pushed' = pushed + 1
    /\ UNCHANGED <<buttonState, lastButtonState, inferenceEnabled, lastInferenceTime,
                   rep_counter, cycle_tracker, ev, calls, last_phase, matched, trail,
                   aggregated, harnessVars>>

NextBuf == PushSample

SpecBuf == Init /\ [][NextBuf]_vars

\* ------------------------------------------------------------------------
\* SpecAgg: AggregatePredictions as a function of the ring. The ring is any sequence
\* of 1 .. MaxRing records; the function is applied once.
\* ------------------------------------------------------------------------
Records == [posture_class : Postures, phase_class : Phases]
Rings == UNION {[1 .. n -> Records] : n \in 1 .. MaxRing}

InitAgg ==
    /\ buttonState = FALSE
    /\ lastButtonState = FALSE
    /\ inferenceEnabled = FALSE
    /\ lastInferenceTime = 0
    /\ rep_counter = [InitRepCounter EXCEPT !.state = STATE_ASCENDING]
    /\ cycle_tracker \in {[InitCycleTracker EXCEPT !.cycle_state = CYCLE_ASCENDING,
                                                   !.predictions = r] : r \in Rings}
    /\ imu_buffer = [i \in 0 .. (BUFFER_SIZE - 1) |-> 0]
    /\ buffer_index = 0
    /\ samples_collected = 0
    /\ pushed = 0
    /\ ev = NoEvent
    /\ calls = 0
    /\ last_phase = -1
    /\ matched = 0
    /\ trail = <<>>
    /\ aggregated = -1
    /\ owed = 0
    /\ BestIdle
    /\ QuantIdle
    /\ CondIdle
    /\ InitCollector
    /\ SettleIdle
    /\ PhaseIdle

Aggregate ==
    /\ aggregated = -1
    /\ aggregated' = AggregatePredictions(cycle_tracker.predictions)
    /\ UNCHANGED <<buttonState, lastButtonState, inferenceEnabled, lastInferenceTime,
                   rep_counter, cycle_tracker, imu_buffer, buffer_index,
                   samples_collected, pushed, ev, calls, last_phase, matched, trail,
                   harnessVars>>

NextAgg == Aggregate

SpecAgg == InitAgg /\ [][NextAgg]_vars

\* ------------------------------------------------------------------------
\* SpecBest: GetBestClass as a function of the output tensor. The tensor holds any
\* scores from ScoreValues with any of the scales and zero points below; the function
\* is applied once.
\* ------------------------------------------------------------------------
ScoreValues == {-128, -3, 0, 127}
Scales == {[num |-> 1, den |-> 256], [num |-> 1, den |-> 1], [num |-> 3, den |-> 2]}
ZeroPoints == {-128, 0, 127}

InitBest ==
    /\ InitProgram
    /\ posture_output \in [data : [0 .. (NUM_POSTURE_CLASSES - 1) -> ScoreValues],
                           scale : Scales,
                           zero_point : ZeroPoints]
    /\ best_posture = -1
    /\ QuantIdle
    /\ CondIdle
    /\ InitCollector
    /\ SettleIdle
    /\ PhaseIdle

CallGetBestClass ==
    /\ best_posture = -1
    /\ best_posture' = GetBestClass(posture_output, NUM_POSTURE_CLASSES)
    /\ UNCHANGED <<programVars, ctlVars, posture_output, quantVars, condVars, dcVars, settleVars,
                   phaseVars>>

NextBest == CallGetBestClass

SpecBest == InitBest /\ [][NextBest]_vars

\* ------------------------------------------------------------------------
\* SpecQuant: the quantization loop of RunInference as a function of the normalized
\* window and the tensor's parameters. Windows are ramps over the time steps, shifted
\* per channel by half a quantization step of the coarsest scale; the loop runs once.
\* ------------------------------------------------------------------------
Slopes == {0, 9, 120}
Offsets == {-500, -70, 0, 25, 500}
InputScales == {7, 20, 50}
InputZeroPoints == {-128, -1, 0, 127}

Ramp(slope, offset) ==
    [t \in 0 .. (WINDOW_SIZE - 1) |->
        [ch \in 0 .. (NUM_CHANNELS - 1) |->
            offset + slope * (t - WINDOW_SIZE \div 2) + 25 * ch]]

InitQuant ==
    /\ InitProgram
    /\ BestIdle
    /\ normalized_window \in {Ramp(s, o) : s \in Slopes, o \in Offsets}
    /\ model_input \in {EmptyInput(s, z) : s \in InputScales, z \in InputZeroPoints}
    /\ CondIdle
    /\ InitCollector
    /\ SettleIdle
    /\ PhaseIdle

QuantizeWindow ==
    /\ model_input.data[0] = Unwritten
    /\ model_input' = [model_input EXCEPT !.data =
                          QuantizeLoops(@, normalized_window, model_input.scale,
                                        model_input.zero_point)]
    /\ UNCHANGED <<programVars, ctlVars, bestVars, normalized_window, condVars, dcVars, settleVars,
                   phaseVars>>

NextQuant == QuantizeWindow

SpecQuant == InitQuant /\ [][NextQuant]_vars

\* ------------------------------------------------------------------------
\* SpecCond: the sampling part of loop() next to the conditioning pipeline. Every
\* iteration reads a raw sample; loop() stores it as it does (here a slot of
\* imu_buffer holds the sample's six values), and a Preprocessor is fed the same raw
\* samples in the same order.
\* ------------------------------------------------------------------------
AtRest == [accel |-> <<0, 0, 0>>, gyro |-> <<0, 0, 0>>]
Level == [accel |-> <<0, 0, 1000>>, gyro |-> <<0, 0, 0>>]
Tilting == [accel |-> <<200, -100, 900>>, gyro |-> <<5000, -3000, 0>>]
RawSamples == {AtRest, Level, Tilting}

\* accel[3], gyro[3] as ReadIMU fills them
RawChannels(values) == [i \in 0 .. (Len(values) - 1) |-> values[i + 1]]

SampleTick ==
    /\ pushed < MaxCondSamples
    /\ \E raw \in RawSamples :
       \E smp \in {ReadAndStore(imu_buffer, buffer_index, samples_collected,
                                BufferEntry(RawChannels(raw.accel),
                                            RawChannels(raw.gyro)), TRUE)},
          out \in {ProcessSample(preprocessor, RawChannels(raw.accel),
                                 RawChannels(raw.gyro))} :
          /\ imu_buffer' = smp.buf
          /\ buffer_index' = smp.idx
          /\ samples_collected' = smp.samples
          /\ preprocessor' = out.p
          /\ processed_sample' = out.processed_sample
          /\ median_sample' = out.median_sample
    /\ pushed' = pushed + 1
    /\ UNCHANGED <<buttonState, lastButtonState, inferenceEnabled, lastInferenceTime,
                   rep_counter, cycle_tracker, ev, calls, last_phase, matched, trail,
                   aggregated, ctlVars, bestVars, quantVars, dcVars, settleVars,
                   phaseVars>>

NextCond == SampleTick

InitCond ==
    InitProgram /\ BestIdle /\ QuantIdle /\ InitPreprocessor /\ InitCollector /\ SettleIdle
        /\ PhaseIdle

SpecCond == InitCond /\ [][NextCond]_vars

\* ------------------------------------------------------------------------
\* SpecSettle: one ButterworthFilter of a Preprocessor, cleared as Init() leaves it, is
\* fed the same input sample after sample. Values have SettleUnit units to 1, fine
\* enough for the first section of the gravity filter (gain 0.0015).
\* ------------------------------------------------------------------------
SettleUnit == 100000000

FilterKinds == {"accel_lowpass", "gyro_highpass", "gravity_filter"}

CoefOf(kind) ==
    CASE kind = "accel_lowpass" -> AccelLowpassCoef
      [] kind = "gyro_highpass" -> GyroHighpassCoef
      [] kind = "gravity_filter" -> GravityCoef

\* the constant inputs: 4.0, 1.0, 0 and -2.0
SettleInputs == {4 * SettleUnit, SettleUnit, 0, 0 - 2 * SettleUnit}

InitSettle ==
    /\ InitProgram /\ BestIdle /\ QuantIdle /\ CondIdle /\ InitCollector /\ PhaseIdle
    /\ settle_kind \in FilterKinds
    /\ settle_filter = NewFilter(CoefOf(settle_kind))
    /\ settle_input \in SettleInputs
    /\ settle_output = 0
    /\ settle_count = 0

FilterSample ==
    /\ settle_count < MaxSettleSamples
    /\ \E r \in {ApplyButterworthFilter(settle_filter, settle_input)} :
          /\ settle_filter' = r.filter
          /\ settle_output' = r.output
    /\ settle_count' = settle_count + 1
    /\ UNCHANGED <<programVars, ctlVars, bestVars, quantVars, condVars, dcVars,
                   phaseVars, settle_kind, settle_input>>

NextSettle == FilterSample

SpecSettle == InitSettle /\ [][NextSettle]_vars

\* ------------------------------------------------------------------------
\* SpecPhase: DetectPhase as a function of the window. The buffer holds a full window:
\* az alternates around a level (its mean) by an amplitude (its standard deviation),
\* gy keeps a magnitude and changes sign; the write cursor is anywhere. The function
\* is applied once.
\* ------------------------------------------------------------------------
AzLevels == {69, 70, 71, 72, 90, 110, 111, 112, 120}
AzAmplitudes == {0, 9, 10, 12, 15, 16}
GyroMagnitudes == {0, 1400, 1500, 1700, 2000, 2100}
Cursors == {0, 17}

\* the sample stored at slot i
WindowSample(level, amplitude, gyro, i) ==
    [k \in 0 .. (NUM_CHANNELS - 1) |->
        CASE k = 2 -> IF i % 2 = 0 THEN level + amplitude ELSE level - amplitude
          [] k = 4 -> IF i % 3 = 0 THEN 0 - gyro ELSE gyro
          [] OTHER -> 0]

InitPhase ==
    /\ buttonState = FALSE
    /\ lastButtonState = FALSE
    /\ inferenceEnabled = FALSE
    /\ lastInferenceTime = 0
    /\ rep_counter = InitRepCounter
    /\ cycle_tracker = InitCycleTracker
    /\ \E level \in AzLevels, amplitude \in AzAmplitudes, gyro \in GyroMagnitudes :
          imu_buffer = [i \in 0 .. (BUFFER_SIZE - 1) |->
                           WindowSample(level, amplitude, gyro, i)]
    /\ buffer_index \in Cursors
    /\ samples_collected = WINDOW_SIZE
    /\ pushed = WINDOW_SIZE
    /\ ev = NoEvent
    /\ calls = 0
    /\ last_phase = -1
    /\ matched = 0
    /\ trail = <<>>
    /\ aggregated = -1
    /\ owed = 0
    /\ BestIdle /\ QuantIdle /\ CondIdle /\ InitCollector /\ SettleIdle /\ PhaseIdle

CallDetectPhase ==
    /\ detected_phase = -1
    /\ detected_phase' = DetectPhase(imu_buffer, buffer_index)
    /\ UNCHANGED <<programVars, ctlVars, bestVars, quantVars, condVars, dcVars,
                   settleVars>>

NextPhase == CallDetectPhase

SpecPhase == InitPhase /\ [][NextPhase]_vars

\* ------------------------------------------------------------------------
\* SpecDC: the data collector. The host sends command lines at any time; an iteration
\* of loop() reads at most one line, and icmRead may fail. Lines arrive whole.
\* ------------------------------------------------------------------------
CommandLines ==
    {<<"START">>, <<"STOP">>, <<"STOP", "\r">>, <<" ", "START">>, <<"start">>,
     <<"STOP", " ", "NOW">>, <<>>}

\* the 14 bytes read from REG_ACCEL_XOUT_H on
RawReadings == {[i \in 0 .. 13 |-> i + 1], [i \in 0 .. 13 |-> 250 - 3 * i]}

\* time an iteration takes besides its delay() call (reading a line, I2C, writing)
ExtraDelays == {0, PERIOD_MS}

\* which command a line is
CommandOf(line) ==
    IF Trim(line) = <<"START">> THEN "START"
    ELSE IF Trim(line) = <<"STOP">> THEN "STOP"
    ELSE "OTHER"

HostSends ==
    /\ Len(rx) < MaxRx
    /\ \E line \in CommandLines : rx' = Append(rx, line)
    /\ dc_ev' = NoCollectorEvent
    /\ UNCHANGED <<programVars, ctlVars, bestVars, quantVars, condVars, settleVars,
                   phaseVars,
                   streamOn, last_sent, frame, stream_cmd>>

CollectorLoop ==
    \E extra \in ExtraDelays, read_ok \in BOOLEAN, raw \in RawReadings :
    \E on \in {IF rx # <<>> THEN ParseCommand(streamOn, Head(rx)) ELSE streamOn},
       now \in {Elapse(last_sent, extra, PERIOD_MS, TRUE)} :
    \E path \in {Path(on, PeriodPassed(now), read_ok)} :
        /\ rx' = IF rx # <<>> THEN Tail(rx) ELSE rx
        /\ streamOn' = on
        /\ stream_cmd' = IF rx # <<>> /\ CommandOf(Head(rx)) # "OTHER"
                         THEN CommandOf(Head(rx))
                         ELSE stream_cmd
        /\ frame' = IF path = "frame" THEN WriteFrame(IcmRead(raw)) ELSE frame
        /\ last_sent' = IF path = "off" THEN Elapse(now, 5, PERIOD_MS, TRUE)
                        ELSE IF path = "early" THEN Elapse(now, 1, PERIOD_MS, TRUE)
                        ELSE 0
        /\ dc_ev' = [cmd |-> IF rx # <<>> THEN CommandOf(Head(rx)) ELSE "NONE",
                     wrote |-> path = "frame",
                     raw |-> IF path = "frame" THEN raw ELSE <<>>]
        /\ UNCHANGED <<programVars, ctlVars, bestVars, quantVars, condVars,
                       settleVars, phaseVars>>

NextDC == HostSends \/ CollectorLoop

SpecDC == Init /\ [][NextDC]_vars

\* ------------------------------------------------------------------------
\* SpecCtl: the control part of loop() at a finer time scale: an iteration may be shorter
\* than the inference interval, ReadIMU() and Invoke() may fail in any iteration, and
\* the button may change level at any time. Few windows are classified (MaxTickCalls).
\* ------------------------------------------------------------------------
\* the pin changes level; a change to HIGH is a press
ButtonInterrupt ==
    /\ ~buttonState => owed < MaxOwed
    /\ ButtonLevelChange
    /\ owed' = IF ~buttonState THEN owed + 1 ELSE owed
    /\ UNCHANGED <<bestVars, quantVars, condVars, dcVars, settleVars,
                   phaseVars>>

LoopTick ==
    \E d \in TickDelays, serial \in BOOLEAN, read_ok \in BOOLEAN, invoke_ok \in BOOLEAN,
       phase \in Phases :
        /\ EnvAllows(read_ok)
        /\ invoke_ok => calls < MaxTickCalls
        /\ LoopBody(d, 0, serial, read_ok, invoke_ok, phase, 0)
        /\ owed' = IF ToggleOnButton(inferenceEnabled, buttonState, lastButtonState)
                        # inferenceEnabled
                   THEN owed - 1
                   ELSE owed
        /\ UNCHANGED <<bestVars, quantVars, condVars, dcVars, settleVars,
                       phaseVars>>

NextCtl == ButtonInterrupt \/ LoopTick

SpecCtl == Init /\ [][NextCtl]_vars

\* ------------------------------------------------------------------------
\* Properties
\* ------------------------------------------------------------------------
\* real time from the entry of the state the timeout check saw to the currentTime
\* snapshot of the step just taken (negative: the entry was stamped after the snapshot)
TimeInState(e) == 0 - e.mid_enter

\* C1 (SpecRep): when the calls made from the initial state are exactly the nine phases
\* at-top, moving, moving, at-bottom, at-bottom, moving, moving, at-top, at-top, with no
\* timeout in between, one rep has been completed and the machine is in AtTop.
C1_ReferenceRep ==
    matched = Len(RefSeq) =>
        /\ rep_counter.total_reps = 1
        /\ rep_counter.state = STATE_AT_TOP

C1_Witness ==
    /\ matched = Len(RefSeq)
    /\ calls = Len(RefSeq)
    /\ rep_counter.total_reps = 1

\* C2 (SpecRep), as amended: in AtTop, Descending, AtBottom and Ascending, a call whose
\* phase differs from the phase of the call before it leaves the state unchanged (a
\* transition needs two consecutive matching inputs); Idle has no hysteresis.
C2_BlipOutsideIdle ==
    [][(/\ ev'.called
        /\ last_phase # -1
        /\ last_phase' # last_phase
        /\ rep_counter.state # STATE_IDLE)
       => rep_counter'.state = rep_counter.state]_vars

\* in Descending an at-bottom input has just been seen once, and the state stayed
C2_Witness ==
    /\ ev.called
    /\ rep_counter.state = STATE_DESCENDING
    /\ last_phase = PHASE_AT_BOTTOM
    /\ rep_counter.phase_confirm_count = 1

\* C2 as stated: in every state, Idle included, a call whose phase differs from the phase
\* of the call before it leaves the state unchanged.
C2_BlipEveryState ==
    [][(/\ ev'.called
        /\ last_phase # -1
        /\ last_phase' # last_phase)
       => rep_counter'.state = rep_counter.state]_vars

\* C3 (Spec): an iteration with inference enabled that finds the machine in Descending
\* more than STATE_TIMEOUT_MS after it entered that state discards the cycle (cycle
\* tracker idle, no buffered predictions), puts the machine in Idle and leaves
\* total_reps, good_form_reps and poor_form_reps as they were.
C3_DescendingTimeout ==
    [][(/\ ev'.enabled
        /\ ev'.mid_state = STATE_DESCENDING
        /\ TimeInState(ev') > STATE_TIMEOUT_MS)
       => /\ rep_counter'.state = STATE_IDLE
          /\ cycle_tracker'.cycle_state = CYCLE_IDLE
          /\ PredictionCount(cycle_tracker') = 0
          /\ rep_counter'.total_reps = rep_counter.total_reps
          /\ rep_counter'.good_form_reps = rep_counter.good_form_reps
          /\ rep_counter'.poor_form_reps = rep_counter.poor_form_reps]_vars

C3_Witness ==
    /\ ev.enabled
    /\ ev.mid_state = STATE_DESCENDING
    /\ TimeInState(ev) > STATE_TIMEOUT_MS
    /\ ev.state_timeout = "reset"
    /\ rep_counter.state = STATE_IDLE

\* C4 (Spec): an iteration with inference enabled that finds the machine in Ascending
\* more than STATE_TIMEOUT_MS after it entered that state, with at least 2 buffered
\* predictions, completes the rep: total_reps grows by exactly 1, the cycle tracker is
\* reset and the machine is in AtTop.
C4_AscendingForceComplete ==
    [][(/\ ev'.enabled
        /\ ev'.mid_state = STATE_ASCENDING
        /\ ev'.mid_count >= 2
        /\ TimeInState(ev') > STATE_TIMEOUT_MS)
       => /\ rep_counter'.total_reps = rep_counter.total_reps + 1
          /\ rep_counter'.state = STATE_AT_TOP
          /\ cycle_tracker'.cycle_state = CYCLE_IDLE
          /\ PredictionCount(cycle_tracker') = 0]_vars

C4_Witness ==
    /\ ev.enabled
    /\ ev.mid_state = STATE_ASCENDING
    /\ ev.mid_count >= 2
    /\ TimeInState(ev) > STATE_TIMEOUT_MS
    /\ ev.state_timeout = "complete"
    /\ rep_counter.state = STATE_AT_TOP
    /\ rep_counter.total_reps = 1

\* the states in which an expired state timer makes the timeout policy reset the machine
ResetStates(e) ==
    \/ e.mid_state \in {STATE_DESCENDING, STATE_AT_BOTTOM}
    \/ e.mid_state = STATE_ASCENDING /\ e.mid_count < 2

\* C5 (Spec), as amended: the timeout policy applies in Descending, AtBottom and
\* Ascending, not in Idle and not in AtTop. An iteration with inference enabled that
\* finds the machine in Descending or AtBottom (or in Ascending with fewer than 2
\* predictions) more than STATE_TIMEOUT_MS after the state was entered discards the
\* cycle and resets the machine to Idle; one that finds it in AtTop leaves it in AtTop,
\* however long ago AtTop was entered.
C5_TimeoutOutsideIdleAndAtTop ==
    [][/\ (/\ ev'.enabled
           /\ ResetStates(ev')
           /\ TimeInState(ev') > STATE_TIMEOUT_MS)
          => /\ rep_counter'.state = STATE_IDLE
             /\ cycle_tracker'.cycle_state = CYCLE_IDLE
             /\ PredictionCount(cycle_tracker') = 0
       /\ (ev'.enabled /\ ev'.mid_state = STATE_AT_TOP)
          => /\ rep_counter'.state = STATE_AT_TOP
             /\ ev'.state_timeout = "none"]_vars

C5_Witness ==
    /\ ev.enabled
    /\ ev.mid_state = STATE_AT_BOTTOM
    /\ TimeInState(ev) > STATE_TIMEOUT_MS
    /\ ev.state_timeout = "reset"
    /\ rep_counter.state = STATE_IDLE

\* C5 as stated: an iteration with inference enabled that finds the machine in AtTop,
\* Descending or AtBottom (or in Ascending with fewer than 2 predictions) more than
\* STATE_TIMEOUT_MS after the state was entered discards the cycle and resets the
\* machine to Idle.
C5_TimeoutEveryStateButIdle ==
    [][(/\ ev'.enabled
        /\ (ResetStates(ev') \/ ev'.mid_state = STATE_AT_TOP)
        /\ TimeInState(ev') > STATE_TIMEOUT_MS)
       => /\ rep_counter'.state = STATE_IDLE
          /\ cycle_tracker'.cycle_state = CYCLE_IDLE
          /\ PredictionCount(cycle_tracker') = 0]_vars

\* C6 (Spec) as stated: the state-timeout branch is taken only when more than
\* STATE_TIMEOUT_MS of real time passed since the state was entered; in particular a
\* state entered in an iteration is not timed out in that iteration.
C6_TimeoutOnlyAfterThreshold ==
    [][ev'.state_timeout # "none" => TimeInState(ev') > STATE_TIMEOUT_MS]_vars

\* votes of class c among the predictions whose phase is not at-top
QualifyingVotes(ring, c) ==
    Cardinality({i \in DOMAIN ring :
                    ring[i].phase_class # PHASE_AT_TOP /\ ring[i].posture_class = c})

\* the class with the most such votes, the lowest index among equals
MajorityClass(ring) ==
    CHOOSE c \in Postures :
        \A d \in Postures :
            \/ QualifyingVotes(ring, c) > QualifyingVotes(ring, d)
            \/ QualifyingVotes(ring, c) = QualifyingVotes(ring, d) /\ c <= d

Qualifying(ring) == {i \in DOMAIN ring : ring[i].phase_class # PHASE_AT_TOP}

\* C7 (SpecAgg), as amended: for a ring holding at least 2 predictions,
\* AggregatePredictions returns the class with the most votes among the predictions
\* whose phase is not at-top, ties going to the lowest class index. (A ring of one
\* prediction yields that prediction's class, whatever its phase.)
C7_MajorityOfTwoOrMore ==
    (aggregated # -1 /\ Len(cycle_tracker.predictions) >= 2)
        => aggregated = MajorityClass(cycle_tracker.predictions)

\* the ring (good, moving), (poor, moving), (good, at-bottom) was aggregated to good
C7_Witness ==
    /\ cycle_tracker.predictions =
          << [posture_class |-> 0, phase_class |-> PHASE_MOVING],
             [posture_class |-> 1, phase_class |-> PHASE_MOVING],
             [posture_class |-> 0, phase_class |-> PHASE_AT_BOTTOM] >>
    /\ aggregated = 0

\* C7 as stated: for every ring, AggregatePredictions returns the class with the most
\* votes among the predictions whose phase is not at-top, ties going to the lowest class.
C7_MajorityEveryRing ==
    aggregated # -1 => aggregated = MajorityClass(cycle_tracker.predictions)

\* C8 (SpecAgg) as stated: for every ring in which fewer than 2 predictions have a phase
\* other than at-top, AggregatePredictions returns the class of the most recent
\* prediction.
C8_FallbackBelowTwoQualifying ==
    (aggregated # -1 /\ Cardinality(Qualifying(cycle_tracker.predictions)) < 2)
        => aggregated =
              cycle_tracker.predictions[Len(cycle_tracker.predictions)].posture_class

\* C9 (SpecRep): the ring never holds more than MAX_PREDICTIONS_PER_CYCLE records; and a
\* call that finds the ring of a running cycle full leaves it holding the former records
\* but the oldest, in their order, followed by the arriving one - unless the same call
\* completes the rep, which empties the ring.
C9_RingBoundedFifo ==
    [][/\ PredictionCount(cycle_tracker') <= MAX_PREDICTIONS_PER_CYCLE
       /\ (/\ ev'.called
           /\ cycle_tracker.cycle_state # CYCLE_IDLE
           /\ PredictionCount(cycle_tracker) = MAX_PREDICTIONS_PER_CYCLE)
          => \/ /\ PredictionCount(cycle_tracker') = 0
                /\ rep_counter'.total_reps = rep_counter.total_reps + 1
             \/ /\ PredictionCount(cycle_tracker') = MAX_PREDICTIONS_PER_CYCLE
                /\ \A i \in 1 .. (MAX_PREDICTIONS_PER_CYCLE - 1) :
                      cycle_tracker'.predictions[i] = cycle_tracker.predictions[i + 1]
                /\ cycle_tracker'.predictions[MAX_PREDICTIONS_PER_CYCLE].phase_class
                      = last_phase']_vars

C9_Witness ==
    /\ ev.called
    /\ ev.evicted
    /\ PredictionCount(cycle_tracker) = MAX_PREDICTIONS_PER_CYCLE

\* C10 (SpecBuf): once WINDOW_SIZE samples or more have been pushed, the window read
\* through the write cursor is the WINDOW_SIZE most recently pushed samples, oldest first.
C10_WindowIsLatestSamples ==
    pushed >= WINDOW_SIZE =>
        Window(imu_buffer, buffer_index)
            = [i \in 1 .. WINDOW_SIZE |-> pushed - WINDOW_SIZE + i]

\* WINDOW_SIZE + 5 samples were pushed: the window starts at sample 6
C10_Witness ==
    /\ pushed = WINDOW_SIZE + 5
    /\ samples_collected = WINDOW_SIZE
    /\ Window(imu_buffer, buffer_index)[1] = 6
    /\ Window(imu_buffer, buffer_index)[WINDOW_SIZE] = WINDOW_SIZE + 5

\* rep_counter and cycle_tracker without their timestamps (which the model keeps
\* relative to the current iteration)
Untimed(rc, ct) ==
    <<[rc EXCEPT !.state_enter_time = 0], [ct EXCEPT !.cycle_start_time = 0]>>

\* C11 (SpecCtl): an iteration that calls RunInference while fewer than WINDOW_SIZE
\* samples have been collected does not reach Invoke(), does not call UpdateRepCounter
\* and leaves rep_counter and cycle_tracker as they were.
C11_NoInferenceBeforeFullWindow ==
    [][(ev'.loop /\ ev'.ran /\ samples_collected' < WINDOW_SIZE)
       => /\ ~ev'.invoked
          /\ ~ev'.called
          /\ Untimed(rep_counter', cycle_tracker') = Untimed(rep_counter, cycle_tracker)]_vars

C11_Witness ==
    /\ ev.loop
    /\ ev.ran
    /\ samples_collected > 0
    /\ samples_collected < WINDOW_SIZE

\* C12 (SpecCtl): an iteration in which Invoke() fails does not call UpdateRepCounter
\* and RunInference leaves rep_counter and cycle_tracker as they were; the attempt counts
\* for the interval: RunInference is called only when at least INFERENCE_INTERVAL_MS
\* passed since it was last called.
C12_FailedInvokeDiscarded ==
    [][/\ (ev'.loop /\ ev'.failed)
          => /\ ~ev'.called
             /\ ev'.mid_state = rep_counter.state
             /\ ev'.mid_count = PredictionCount(cycle_tracker)
             /\ (ev'.state_timeout = "none" /\ ~ev'.cycle_timeout)
                => Untimed(rep_counter', cycle_tracker')
                      = Untimed(rep_counter, cycle_tracker)
             /\ lastInferenceTime' = 0
       /\ (ev'.loop /\ ev'.ran) => ev'.age >= INFERENCE_INTERVAL_MS]_vars

\* Invoke() failed on a window after an earlier window had been classified
C12_Witness ==
    /\ ev.loop
    /\ ev.failed
    /\ ~ev.called
    /\ calls > 0
    /\ rep_counter.state = STATE_AT_TOP
    /\ lastInferenceTime = 0

\* C13 (SpecCtl): an iteration in which ReadIMU() returns false leaves imu_buffer,
\* buffer_index and samples_collected as they were (and goes on: see the witness).
C13_FailedReadStoresNothing ==
    [][(ev'.loop /\ ~ev'.read_ok)
       => /\ imu_buffer' = imu_buffer
          /\ buffer_index' = buffer_index
          /\ samples_collected' = samples_collected]_vars

\* the read failed and the same iteration went on to classify the window
C13_Witness ==
    /\ ev.loop
    /\ ~ev.read_ok
    /\ ev.called
    /\ samples_collected = WINDOW_SIZE

\* C19 (SpecCtl) as stated: every press toggles inferenceEnabled exactly once, whatever
\* the interleaving: when the loop has handled the button, no press is left unanswered.
C19_EveryPressToggles ==
    [][ev'.loop => owed' = 0]_vars


\* C17: a call of UpdateRepCounter whose phase is not the trigger phase of the current
\* state leaves the state alone and the confirm counter at 0; the counter is never seen
\* above 1, it is 1 only right after a call with the trigger phase in a state with
\* hysteresis, and such a state is left by UpdateRepCounter only by the second of two
\* consecutive calls with the trigger phase.
C17_MismatchResetsConfirmCount ==
    /\ [](/\ rep_counter.phase_confirm_count \in {0, 1}
          /\ rep_counter.phase_confirm_count = 1 =>
                /\ ev.called
                /\ rep_counter.state # STATE_IDLE
                /\ last_phase = TriggerPhase(rep_counter.state))
    /\ [][ev'.called =>
            /\ last_phase' # TriggerPhase(rep_counter.state) =>
                  /\ rep_counter'.state = rep_counter.state
                  /\ rep_counter'.phase_confirm_count = 0
            /\ (rep_counter.state # STATE_IDLE /\ rep_counter'.state # rep_counter.state) =>
                  /\ last_phase' = TriggerPhase(rep_counter.state)
                  /\ rep_counter.phase_confirm_count = 1
                  /\ rep_counter'.phase_confirm_count = 0]_vars

\* a blip in Descending after at least two calls there: the counter is back at 0
C17_Witness ==
    /\ ev.called
    /\ rep_counter.state = STATE_DESCENDING
    /\ last_phase = PHASE_MOVING
    /\ rep_counter.phase_confirm_count = 0
    /\ PredictionCount(cycle_tracker) >= 2
    /\ cycle_tracker.predictions[PredictionCount(cycle_tracker) - 1].phase_class
          = PHASE_AT_BOTTOM

\* a rep is completed by UpdateRepCounter (Ascending to AtTop) or by the state timeout
\* in Ascending ("complete")
RepCompleted(e, before, after) ==
    \/ e.state_timeout = "complete"
    \/ e.called /\ before = STATE_ASCENDING /\ after = STATE_AT_TOP

\* C18: a step that completes a rep, in UpdateRepCounter or by the timeout, adds exactly 1
\* to total_reps and exactly 1 to good_form_reps if the aggregated class is 0, to
\* poor_form_reps otherwise; no other step changes the three counters; so total_reps is
\* the sum of the two in every reachable state.
C18_RepTallies ==
    /\ [](rep_counter.total_reps
             = rep_counter.good_form_reps + rep_counter.poor_form_reps)
    /\ [][IF RepCompleted(ev', rep_counter.state, rep_counter'.state)
          THEN /\ aggregated' \in Postures
               /\ rep_counter'.total_reps = rep_counter.total_reps + 1
               /\ rep_counter'.good_form_reps
                     = rep_counter.good_form_reps + (IF aggregated' = 0 THEN 1 ELSE 0)
               /\ rep_counter'.poor_form_reps
                     = rep_counter.poor_form_reps + (IF aggregated' = 0 THEN 0 ELSE 1)
          ELSE /\ rep_counter'.total_reps = rep_counter.total_reps
               /\ rep_counter'.good_form_reps = rep_counter.good_form_reps
               /\ rep_counter'.poor_form_reps = rep_counter.poor_form_reps]_vars

\* a rep completed by the timeout in Ascending and tallied as poor
C18_Witness ==
    /\ ev.state_timeout = "complete"
    /\ aggregated = 1
    /\ rep_counter.total_reps = 1
    /\ rep_counter.poor_form_reps = 1
    /\ rep_counter.good_form_reps = 0

\* the scores of all classes, as numerators over scale.den
Scores(output) == [i \in 0 .. (NUM_POSTURE_CLASSES - 1) |-> Dequantize(output, i)]

\* the lowest index holding the greatest score
ArgMax(s) ==
    CHOOSE i \in DOMAIN s :
        /\ \A j \in DOMAIN s : s[j] <= s[i]
        /\ \A j \in DOMAIN s : j < i => s[j] < s[i]

\* some dequantized score is greater than -1.0
AboveSentinel(output) ==
    \E i \in 0 .. (NUM_POSTURE_CLASSES - 1) : Dequantize(output, i) > 0 - output.scale.den

\* C14 (as stated): for every tensor GetBestClass returns the lowest index that holds
\* the greatest dequantized score.
C14_ArgMaxEveryTensor ==
    best_posture # -1 => best_posture = ArgMax(Scores(posture_output))

\* C14 (amended): when some dequantized score is greater than -1.0, the initial
\* max_prob, GetBestClass returns the lowest index that holds the greatest dequantized
\* score; when none is, it returns class 0.
C14_ArgMaxAboveSentinel ==
    best_posture # -1 =>
        IF AboveSentinel(posture_output)
        THEN best_posture = ArgMax(Scores(posture_output))
        ELSE best_posture = 0

\* a tie for the greatest score between classes 1 and 3, class 0 below them
C14_Witness ==
    /\ best_posture = 1
    /\ AboveSentinel(posture_output)
    /\ posture_output.data[1] = posture_output.data[3]
    /\ posture_output.data[0] < posture_output.data[1]
    /\ posture_output.data[2] < posture_output.data[1]

\* the largest magnitude round(val / scale) takes for the windows and scales of SpecQuant
MaxRounded == 520

\* round(num / den): the integer nearest to num / den, the one of greater magnitude
\* when two are equally near
Round(num, den) ==
    CHOOSE r \in (0 - MaxRounded) .. MaxRounded :
        LET twice == 2 * (num - r * den)
            dist == IF twice < 0 THEN 0 - twice ELSE twice
        IN \/ dist < den
           \/ dist = den /\ (IF num < 0 THEN r * den < num ELSE r * den > num)

Min(a, b) == IF a < b THEN a ELSE b
Max(a, b) == IF a > b THEN a ELSE b

\* C15: after the quantization loop, for every time step t and channel ch the tensor
\* element at flat index t * NUM_CHANNELS + ch is
\* clamp(round(normalized / scale) + zero_point, -128, 127), and every element of the
\* tensor lies in -128 .. 127.
C15_QuantizedClampedTimeMajor ==
    model_input.data[0] # Unwritten =>
        /\ \A t \in 0 .. (WINDOW_SIZE - 1), ch \in 0 .. (NUM_CHANNELS - 1) :
              model_input.data[t * NUM_CHANNELS + ch]
                 = Max(-128, Min(127, Round(normalized_window[t][ch], model_input.scale)
                                         + model_input.zero_point))
        /\ \A i \in DOMAIN model_input.data : model_input.data[i] \in -128 .. 127

\* a written tensor whose first element was clamped at -128, whose last element was
\* clamped at 127, and which holds the halfway case round(-3.5) + 0 = -4 for time step
\* 25, channel 0
C15_Witness ==
    /\ model_input.data[0] = -128
    /\ Round(normalized_window[0][0], model_input.scale) + model_input.zero_point < -128
    /\ model_input.data[WINDOW_SIZE * NUM_CHANNELS - 1] = 127
    /\ Round(normalized_window[WINDOW_SIZE - 1][NUM_CHANNELS - 1], model_input.scale)
          + model_input.zero_point > 127
    /\ 2 * normalized_window[25][0] = 0 - 7 * model_input.scale
    /\ model_input.data[25 * NUM_CHANNELS] = -4

\* the slot loop() wrote last
LastSlot == (buffer_index + BUFFER_SIZE - 1) % BUFFER_SIZE

\* C16: the sample loop() stored last in imu_buffer is what ProcessSample outputs for
\* the raw sample read, the Preprocessor having been fed every raw sample so far.
C16_BufferHoldsConditionedSamples ==
    pushed > 0 => imu_buffer[LastSlot] = processed_sample

\* the values of a frame: numerators over the divisors of the two sensors
FrameOf(m) == <<m.ax, m.ay, m.az, m.gx, m.gy, m.gz>>

\* C20: streaming is on exactly when the last START or STOP command read is START, and
\* off before any was read; an iteration writes a frame only with streaming on, i.e.
\* never before the first START nor between a STOP and the next START; a frame is the
\* values ax, ay, az, gx, gy, gz of that iteration's reading, in this order; a line that
\* is neither START nor STOP leaves streamOn as it was.
C20_FramesOnlyWhileStreaming ==
    /\ [](/\ streamOn <=> stream_cmd = "START"
          /\ stream_cmd = "NONE" => frame = <<>>)
    /\ [][/\ dc_ev'.wrote =>
                /\ streamOn'
                /\ stream_cmd' = "START"
                /\ Len(frame') = NUM_CHANNELS
                /\ frame' = FrameOf(IcmRead(dc_ev'.raw))
          /\ ~dc_ev'.wrote => frame' = frame
          /\ dc_ev'.cmd \in {"OTHER", "NONE"} => streamOn' = streamOn]_vars

\* a frame with a negative reading, written with streaming on by an iteration that
\* read a line that is neither START nor STOP
C20_Witness ==
    /\ dc_ev.wrote
    /\ dc_ev.cmd = "OTHER"
    /\ streamOn
    /\ frame[1].num < 0
    /\ frame[1].den = ACC_LSB_PER_G
    /\ frame[4].den = GYR_LSB_PER_DPS

\* C28: in every reachable state the write cursor of the circular sample buffer is a
\* slot of the buffer (0 <= buffer_index < BUFFER_SIZE), the sample count is between 0
\* and WINDOW_SIZE, and no step lowers the sample count.
C28_BufferCursorAndCountBounded ==
    /\ [](/\ 0 <= buffer_index /\ buffer_index < BUFFER_SIZE
          /\ 0 <= samples_collected /\ samples_collected <= WINDOW_SIZE)
    /\ [][samples_collected' >= samples_collected]_vars

\* the cursor has wrapped twice and the count stays at its cap
C28_Witness ==
    /\ pushed = 2 * BUFFER_SIZE + 1
    /\ buffer_index = 1
    /\ samples_collected = WINDOW_SIZE

\* prediction_count at the call of AggregatePredictions made by UpdateRepCounter: the
\* ring after the arriving record was buffered
CountAtCompletion(ct, phase) == PredictionCount(BufferPrediction(ct, phase, 0))

\* C29: whenever AggregatePredictions is called, by the Ascending -> AtTop completion of
\* UpdateRepCounter or by the Ascending timeout, the tracker holds at least 2
\* predictions; so prediction_count is not 0 at the call and the index
\* prediction_count - 1 is not -1.
C29_AggregateSeesTwoOrMore ==
    [][/\ (/\ ev'.called
           /\ rep_counter.state = STATE_ASCENDING
           /\ rep_counter'.state = STATE_AT_TOP)
            => CountAtCompletion(cycle_tracker, last_phase') >= 2
       /\ ev'.state_timeout = "complete" => ev'.mid_count >= 2]_vars

\* the Ascending timeout completed a rep from the fewest predictions Ascending can hold
C29_Witness ==
    /\ ev.state_timeout = "complete"
    /\ ev.mid_state = STATE_ASCENDING
    /\ ev.mid_count = 4
    /\ rep_counter.total_reps = 1
    /\ aggregated # -1

\* the ring AggregatePredictions reads when UpdateRepCounter completes a rep: the ring
\* after the arriving record was buffered
RingAtCompletion(ct, phase) == BufferPrediction(ct, phase, 0).predictions

\* the slots of a ring whose phase is not at-top
NotAtTop(ring) == {i \in 1 .. Len(ring) : ring[i].phase_class # PHASE_AT_TOP}

\* C30: when UpdateRepCounter completes a rep (Ascending -> AtTop), the prediction ring
\* holds exactly MAX_PREDICTIONS_PER_CYCLE records, its two most recent records have
\* phase at-top, and at least two of its records have another phase.
C30_CompletionRing ==
    [][(/\ ev'.called
        /\ rep_counter.state = STATE_ASCENDING
        /\ rep_counter'.state = STATE_AT_TOP)
         => LET ring == RingAtCompletion(cycle_tracker, last_phase') IN
            /\ Len(ring) = MAX_PREDICTIONS_PER_CYCLE
            /\ ring[Len(ring)].phase_class = PHASE_AT_TOP
            /\ ring[Len(ring) - 1].phase_class = PHASE_AT_TOP
            /\ Cardinality(NotAtTop(ring)) >= 2]_vars

\* a rep completed by a call that found the ring full: after four inputs in Ascending
\* that did not complete it, the oldest records were evicted
C30_Witness ==
    /\ ev.called
    /\ ev.evicted
    /\ rep_counter.state = STATE_AT_TOP
    /\ rep_counter.total_reps = 1
    /\ aggregated # -1
    /\ calls = MaxCycleCalls

\* a step that changes rep_counter.state
StateChanges == rep_counter'.state # rep_counter.state

\* a step at a cycle boundary: the cycle starts (AtTop -> Descending), a rep is
\* completed, or a timeout resets the machine
CycleBoundary ==
    \/ rep_counter.state = STATE_AT_TOP /\ rep_counter'.state = STATE_DESCENDING
    \/ rep_counter'.total_reps # rep_counter.total_reps
    \/ ev'.state_timeout # "none"
    \/ ev'.cycle_timeout

\* a transition inside the cycle: Descending -> AtBottom or AtBottom -> Ascending
MidCycleTransition ==
    /\ ev'.called
    /\ \/ rep_counter.state = STATE_DESCENDING /\ rep_counter'.state = STATE_AT_BOTTOM
       \/ rep_counter.state = STATE_AT_BOTTOM /\ rep_counter'.state = STATE_ASCENDING

\* C25 (as stated): a step with a state transition or a cycle boundary resets the confirm
\* counter and the cycle tracker.
C25_TransitionResetsCounterAndTracker ==
    [][StateChanges \/ CycleBoundary
         => /\ rep_counter'.phase_confirm_count = 0
            /\ PredictionCount(cycle_tracker') = 0]_vars

\* C25: a step with a state transition or a cycle boundary leaves the confirm counter at
\* 0; a step at a cycle boundary leaves the cycle tracker without predictions; the
\* transitions Descending -> AtBottom and AtBottom -> Ascending keep the buffered
\* predictions, the arriving one included.
C25_CounterOnTransitionTrackerOnBoundary ==
    [][/\ StateChanges \/ CycleBoundary => rep_counter'.phase_confirm_count = 0
       /\ CycleBoundary => PredictionCount(cycle_tracker') = 0
       /\ MidCycleTransition
            => /\ cycle_tracker'.predictions
                    = BufferPrediction(cycle_tracker, last_phase', 0).predictions
                  \/ cycle_tracker'.predictions
                    = BufferPrediction(cycle_tracker, last_phase', 1).predictions
               /\ PredictionCount(cycle_tracker') >= 2]_vars

\* Descending was just left for AtBottom: the two at-bottom inputs are in the ring and
\* the confirm counter is 0
C25_Witness ==
    /\ ev.called
    /\ rep_counter.state = STATE_AT_BOTTOM
    /\ last_phase = PHASE_AT_BOTTOM
    /\ rep_counter.phase_confirm_count = 0
    /\ PredictionCount(cycle_tracker) = 2
    /\ cycle_tracker.predictions[1].phase_class = PHASE_AT_BOTTOM
    /\ cycle_tracker.predictions[2].phase_class = PHASE_AT_BOTTOM

\* C26: every step that changes rep_counter.state records the state-entry timestamp:
\* state_enter_time is then the time of that iteration (its currentTime snapshot, or
\* the millis() read by UpdateRepCounter in it), whether UpdateRepCounter, the state
\* timeout or the cycle timeout made the change.
C26_EntryTimeOnEveryStateChange ==
    [][StateChanges => rep_counter'.state_enter_time \in Skews \cup {0}]_vars

\* C22: every iteration in which RunInference reaches Invoke() resets the watchdog
\* before the invocation and again after it, before RunInference returns, whether
\* Invoke() succeeded or failed.
C22_WatchdogAroundInvoke ==
    [][ev'.invoked => ev'.wdt_before /\ ev'.wdt_after]_vars

\* channel k of the raw sample received back samples before the last one (0 for the
\* last one); 0 if no such sample was received since the Preprocessor was created
RecentRaw(k, back) ==
    IF pushed - back >= 1 THEN imu_buffer[pushed - 1 - back][k] ELSE 0

\* the middle value of three: one of them with two of them at or below it and two at or
\* above it
Middle(a, b, c) ==
    CHOOSE m \in {a, b, c} :
        /\ Cardinality({i \in 1 .. 3 : <<a, b, c>>[i] <= m}) >= 2
        /\ Cardinality({i \in 1 .. 3 : <<a, b, c>>[i] >= m}) >= 2

\* the median buffer of channel k
MedianBuffer(k) ==
    IF k < ACCEL_CHANNELS THEN preprocessor.accel_median_buffer[k]
    ELSE preprocessor.gyro_median_buffer[k - ACCEL_CHANNELS]

\* C23: after every ProcessSample call, the median stage's output for each of the 6
\* channels is the middle value of that channel's 3 most recent raw values, the new one
\* included (0 for samples not yet received); the shared cursor has advanced exactly
\* once per call, and the call stored the new value of every channel at the slot the
\* cursor had before it advanced.
C23_MedianOfLastThree ==
    pushed >= 1 =>
        /\ \A k \in 0 .. (NUM_CHANNELS - 1) :
              /\ median_sample[k]
                    = Middle(RecentRaw(k, 0), RecentRaw(k, 1), RecentRaw(k, 2))
              /\ \A back \in 0 .. (MEDIAN_KERNEL_SIZE - 1) :
                    MedianBuffer(k)[(pushed - 1 - back) % MEDIAN_KERNEL_SIZE]
                       = RecentRaw(k, back)
        /\ preprocessor.median_index = pushed % MEDIAN_KERNEL_SIZE

\* four samples were processed (the cursor wrapped); az came as 1.0, 0, 0.9, 0.9 and
\* the median of the last three is 0.9; gx came as 0, 0, 5.0, 5.0 and its median is 5.0
C23_Witness ==
    /\ pushed = 4
    /\ imu_buffer[0][2] = 1000
    /\ imu_buffer[1][2] = 0
    /\ imu_buffer[2][2] = 900
    /\ imu_buffer[3][2] = 900
    /\ median_sample[2] = 900
    /\ imu_buffer[3][3] = 5000
    /\ median_sample[3] = 5000
    /\ preprocessor.median_index = 1

\* samples after which a filter fed a constant input counts as settled (at 40 Hz:
\* 0.5 s, 15 s and 6.25 s)
SettleAfter(kind) ==
    CASE kind = "accel_lowpass" -> 20
      [] kind = "gyro_highpass" -> 600
      [] kind = "gravity_filter" -> 250

\* the DC gain times the input: the gain (b0 + b1 + b2) / (1 + a1 + a2) of the two
\* sections multiplied is 1 for the two low-pass filters and 0 for the high-pass
DcTarget(kind, input) == IF kind = "gyro_highpass" THEN 0 ELSE input

\* "approximately": within 1 / SettleTolerance of the input's magnitude
SettleTolerance == 1000

\* C24: a cleared Butterworth filter fed a constant input settles to its DC gain times
\* the input and stays there: from SettleAfter samples on, the outputs of the
\* accelerometer low-pass and of the gravity low-pass are within 0.1 % of the input, and
\* the output of the gyroscope high-pass is within 0.1 % of the input of 0.
C24_FiltersSettleToDcGain ==
    settle_count >= SettleAfter(settle_kind)
        => Abs(settle_output - DcTarget(settle_kind, settle_input))
              <= Abs(settle_input) \div SettleTolerance

\* the gravity filter after MaxSettleSamples samples of 4.0: its output is close to 4.0
\* and not exactly 4.0
C24_Witness ==
    /\ settle_kind = "gravity_filter"
    /\ settle_input = 4 * SettleUnit
    /\ settle_count = MaxSettleSamples
    /\ settle_output # settle_input
    /\ Abs(settle_output - settle_input) <= Abs(settle_input) \div SettleTolerance

\* the six rules of the claim for a window with statistics st, in their order: whether
\* the rule's condition holds, and its outcome
PhaseRules(st) ==
    LET n == WINDOW_SIZE
        plateau == st.az_sum >= 72 * n /\ st.az_sum <= 110 * n
    IN << [holds |-> st.az_sum < 70 * n, outcome |-> PHASE_MOVING],
          [holds |-> st.az_sum >= 112 * n, outcome |-> PHASE_AT_BOTTOM],
          [holds |-> st.gy_sum > 2000 * n, outcome |-> PHASE_MOVING],
          [holds |-> /\ plateau
                     /\ st.var_sum_n2 < 10 * 10 * n * n * n
                     /\ st.gy_sum < 1500 * n,
           outcome |-> PHASE_AT_TOP],
          [holds |-> st.var_sum_n2 > 15 * 15 * n * n * n, outcome |-> PHASE_MOVING],
          [holds |-> TRUE, outcome |-> IF plateau THEN PHASE_AT_TOP ELSE PHASE_MOVING] >>

\* the first rule whose condition holds
FirstRule(rules) ==
    CHOOSE i \in 1 .. Len(rules) :
        rules[i].holds /\ \A j \in 1 .. (i - 1) : ~rules[j].holds

\* C27: what DetectPhase returns for a window is the outcome of the first of the six
\* rules whose condition holds, taken in the order 1 to 6, and it is one of 0, 1, 2.
C27_FirstMatchingRule ==
    detected_phase # -1 =>
        LET rules == PhaseRules(WindowStats(imu_buffer, buffer_index)) IN
        /\ detected_phase = rules[FirstRule(rules)].outcome
        /\ detected_phase \in {0, 1, 2}

\* a window decided by the last rule: mean az 0.90 in the plateau band, standard
\* deviation 0.12 (neither below 0.10 nor above 0.15), mean |gy| 17, read with the write
\* cursor at slot 17
C27_Witness ==
    /\ detected_phase = PHASE_AT_TOP
    /\ buffer_index = 17
    /\ imu_buffer[0][2] = 102
    /\ imu_buffer[1][2] = 78
    /\ imu_buffer[0][4] = -1700
    /\ FirstRule(PhaseRules(WindowStats(imu_buffer, buffer_index))) = 6

\* the machine is inside a cycle
InCycle == rep_counter.state \in {STATE_DESCENDING, STATE_AT_BOTTOM, STATE_ASCENDING}

\* C21: whenever the machine is in Descending, AtBottom or Ascending with inference
\* enabled, it later is in Idle or AtTop, or inference is disabled; this needs no
\* further phase transition, only that loop() keeps being called while time advances.
C21_NoPermanentWedge ==
    (InCycle /\ inferenceEnabled) ~> (~InCycle \/ ~inferenceEnabled)

\* the state timeout took the machine out of AtBottom after iterations whose
\* invocations failed
C21_Witness ==
    /\ ev.state_timeout = "reset"
    /\ ev.mid_state = STATE_AT_BOTTOM
    /\ ev.failed
    /\ rep_counter.state = STATE_IDLE
    /\ inferenceEnabled
    /\ calls = 5

\* the cycle state that goes with a machine state
MirrorOf(state) ==
    CASE state = STATE_DESCENDING -> CYCLE_DESCENDING
      [] state = STATE_AT_BOTTOM -> CYCLE_AT_BOTTOM
      [] state = STATE_ASCENDING -> CYCLE_ASCENDING
      [] OTHER -> CYCLE_IDLE

Mirrors(state, cycle_state, prediction_count) ==
    /\ cycle_state = MirrorOf(state)
    /\ cycle_state # CYCLE_IN_PROGRESS
    /\ cycle_state = CYCLE_IDLE => prediction_count = 0

\* C31: after every loop iteration, and after the UpdateRepCounter call inside it, the
\* cycle state is the one that goes with the machine state (idle for Idle and AtTop,
\* descending, at-bottom, ascending for the state of that name), it is never
\* CYCLE_IN_PROGRESS, and the ring is empty whenever the cycle state is idle.
C31_CycleStateMirrorsState ==
    /\ Mirrors(rep_counter.state, cycle_tracker.cycle_state,
               PredictionCount(cycle_tracker))
    /\ ev.called => Mirrors(ev.mid_state, ev.mid_cycle, ev.mid_count)

\* C31 witness: an UpdateRepCounter call has just moved the machine from AtTop to
\* Descending (the arm that stores CYCLE_IN_PROGRESS) and the iteration ended there
C31_Witness ==
    /\ ev.loop /\ ev.called
    /\ ev.mid_state = STATE_DESCENDING
    /\ ev.mid_cycle = CYCLE_DESCENDING
    /\ rep_counter.state = STATE_DESCENDING
    /\ cycle_tracker.cycle_state = CYCLE_DESCENDING
    /\ PredictionCount(cycle_tracker) = 0

\* the machine state, and the states entered since Idle / AtTop, at the moment a step
\* counts a rep: in the forced completion of loop() the ones UpdateRepCounter left
\* behind in the same iteration, else the ones before the step
StateAtCount == IF ev'.state_timeout = "complete" THEN ev'.mid_state ELSE rep_counter.state
TrailAtCount ==
    IF ev'.state_timeout = "complete"
    THEN Track(trail, rep_counter.state, ev'.mid_state)
    ELSE trail

\* C32: total_reps never decreases; a step that changes it adds one, does so while the
\* machine is in Ascending, and the states entered since the machine was last in Idle
\* or AtTop are Descending, AtBottom, Ascending, in this order and nothing else.
C32_RepOnlyAfterFullSequence ==
    [][/\ rep_counter'.total_reps >= rep_counter.total_reps
       /\ rep_counter'.total_reps # rep_counter.total_reps =>
             /\ rep_counter'.total_reps = rep_counter.total_reps + 1
             /\ StateAtCount = STATE_ASCENDING
             /\ TrailAtCount = <<STATE_DESCENDING, STATE_AT_BOTTOM, STATE_ASCENDING>>]_vars

\* C32 witness: the step just taken counted the first rep (it aggregated the ring), in
\* an UpdateRepCounter call, and left the machine in AtTop with nothing entered since
C32_Witness ==
    /\ rep_counter.total_reps = 1
    /\ ev.called /\ ev.state_timeout = "none"
    /\ aggregated # -1
    /\ rep_counter.state = STATE_AT_TOP
    /\ trail = <<>>

\* rep_counter and cycle_tracker hold what they held before the step: every field but
\* the timestamps is equal, and the timestamps (kept relative to the iteration's
\* currentTime) have only aged by the time the iteration took
OnlyAged(rc, ct, rc_after, ct_after) ==
    \E d \in Delays \cup TickDelays \cup {LOOP_DELAY_MS} :
        /\ rc_after = ElapseRepCounter(rc, d)
        /\ ct_after = ElapseCycleTracker(ct, d)

\* C33: an iteration of loop() that reaches "if (inferenceEnabled)" with the flag false
\* runs no inference and no timeout and leaves rep_counter and cycle_tracker as they
\* were, and it stores the sample in imu_buffer and advances the cursor if and only if
\* ReadIMU() succeeded.
C33_DisabledLoopOnlySamples ==
    [][(ev'.loop /\ ~inferenceEnabled')
       => /\ ~ev'.ran /\ ~ev'.invoked /\ ~ev'.called
          /\ ev'.state_timeout = "none" /\ ~ev'.cycle_timeout
          /\ OnlyAged(rep_counter, cycle_tracker, rep_counter', cycle_tracker')
          /\ IF ev'.read_ok
             THEN /\ imu_buffer' = [imu_buffer EXCEPT ![buffer_index] = pushed']
                  /\ pushed' = pushed + 1
                  /\ buffer_index' = (buffer_index + 1) % BUFFER_SIZE
                  /\ samples_collected' = IF samples_collected < WINDOW_SIZE
                                          THEN samples_collected + 1
                                          ELSE samples_collected
             ELSE UNCHANGED <<imu_buffer, buffer_index, samples_collected>>]_vars

\* C33 witness: inference was disabled inside a cycle, both timeouts have been overdue
\* since, and the disabled iteration just taken stored a sample over the oldest one
C33_Witness ==
    /\ ev.loop /\ ~inferenceEnabled /\ ev.read_ok
    /\ pushed > BUFFER_SIZE
    /\ rep_counter.state = STATE_DESCENDING
    /\ cycle_tracker.cycle_state = CYCLE_DESCENDING
    /\ rep_counter.state_enter_time < 0 - STATE_TIMEOUT_MS
    /\ cycle_tracker.cycle_start_time < 0 - CYCLE_TIMEOUT_MS

\* C34 as stated, its first half: an iteration with inference enabled that begins with
\* a cycle active for more than CYCLE_TIMEOUT_MS counts no rep (total_reps is unchanged).
C34_OverdueCycleNeverCounted ==
    [][(ev'.loop /\ ev'.enabled /\ ev'.cycle_age > CYCLE_TIMEOUT_MS)
       => rep_counter'.total_reps = rep_counter.total_reps]_vars
====
